---- MODULE Spec2Model ----
(***************************************************************************)
(* Model of the Agnet stdio protocol stack:                                *)
(*   - the length-prefixed JSON frame codec (encodeFrame / FrameDecoder),  *)
(*   - the pull-based StdioJsonTransport,                                  *)
(*   - the reference mock agent's session/send handler,                    *)
(*   - the client-side session driver (nextMessage, sendAndWaitComplete),  *)
(*   - the chat layer that replays persisted history (runTaskSend).        *)
(*                                                                         *)
(* Text is modelled as a sequence of code points, bytes as naturals in     *)
(* 0..255.  JSON values are records [t, n, s, a] of one shape:             *)
(*   t : "null" | "true" | "false" | "num" | "str" | "arr" | "obj" | "member" *)
(*   n : the number (t = "num"), s : the string / member key,              *)
(*   a : the array elements / object members / the member's value.         *)
(***************************************************************************)
EXTENDS Integers, Sequences, FiniteSets, TLC

\* ------------------------------------------------------------------ bounds

\* Most frames on one inbound wire.
MaxFrames == 2

\* Most next() calls a consumer makes on one transport.
MaxPulls == 2

\* Most requests the agent receives in one run.
MaxRequests == 3

\* Largest --chunks value the agent is started with.
MaxChunks == 3
\* ClientSpec: messages the peer writes to the driver.
MaxMessages == 3
\* ChatSpec: completed Chat.send calls on the chat.
MaxSends == 2
\* SendSpec: calls of send().
MaxWrites == 3
\* chunkString as a function: values of --chunks tried on one reply.
MaxParts == 7
\* AgentListSpec: requests the listing peer writes, and creates among them.
MaxListRequests == 5
MaxCreates == 3
\* RegistrySpec: providers.register calls on the instance.
MaxRegistrations == 3
\* ConnSpec: close() calls on one connection.
MaxCloses == 2

\* ------------------------------------------------------- sequence helpers

RECURSIVE Flatten(_)
Flatten(ss) == IF ss = <<>> THEN <<>> ELSE Head(ss) \o Flatten(Tail(ss))

Slice(s, from, to) == SubSeq(s, from + 1, to)

\* ------------------------------------------------------------ JSON values

JNull == [t |-> "null", n |-> 0, s |-> <<>>, a |-> <<>>]
JTrue == [t |-> "true", n |-> 0, s |-> <<>>, a |-> <<>>]
JFalse == [t |-> "false", n |-> 0, s |-> <<>>, a |-> <<>>]
JNum(k) == [t |-> "num", n |-> k, s |-> <<>>, a |-> <<>>]
JStr(cs) == [t |-> "str", n |-> 0, s |-> cs, a |-> <<>>]
JArr(xs) == [t |-> "arr", n |-> 0, s |-> <<>>, a |-> xs]
JMember(k, v) == [t |-> "member", n |-> 0, s |-> k, a |-> <<v>>]
JObj(ms) == [t |-> "obj", n |-> 0, s |-> <<>>, a |-> ms]

\* Code points of the characters JSON text is made of.
Ch == [quote |-> 34, backslash |-> 92, comma |-> 44, colon |-> 58, minus |-> 45,
       lbracket |-> 91, rbracket |-> 93, lbrace |-> 123, rbrace |-> 125,
       zero |-> 48, nine |-> 57, space |-> 32, tab |-> 9, lf |-> 10, cr |-> 13,
       n |-> 110, replacement |-> 65533]

LitNull == <<110, 117, 108, 108>>
LitTrue == <<116, 114, 117, 101>>
LitFalse == <<102, 97, 108, 115, 101>>

\* ---------------------------------------------------------- JSON.stringify

RECURSIVE Digits(_)
Digits(k) == IF k < 10 THEN <<Ch.zero + k>> ELSE Append(Digits(k \div 10), Ch.zero + (k % 10))

NumberText(k) == IF k < 0 THEN <<Ch.minus>> \o Digits(0 - k) ELSE Digits(k)

EscapeChar(c) ==
    IF c = Ch.quote THEN <<Ch.backslash, Ch.quote>>
    ELSE IF c = Ch.backslash THEN <<Ch.backslash, Ch.backslash>>
    ELSE IF c = Ch.lf THEN <<Ch.backslash, Ch.n>>
    ELSE <<c>>

QuoteString(cs) ==
    <<Ch.quote>> \o Flatten([i \in 1..Len(cs) |-> EscapeChar(cs[i])]) \o <<Ch.quote>>

RECURSIVE JoinComma(_)
JoinComma(ts) ==
    IF ts = <<>> THEN <<>>
    ELSE IF Len(ts) = 1 THEN ts[1]
    ELSE ts[1] \o <<Ch.comma>> \o JoinComma(Tail(ts))

RECURSIVE JSONstringify(_)
JSONstringify(v) ==
    CASE v.t = "null" -> LitNull
      [] v.t = "true" -> LitTrue
      [] v.t = "false" -> LitFalse
      [] v.t = "num" -> NumberText(v.n)
      [] v.t = "str" -> QuoteString(v.s)
      [] v.t = "arr" ->
            <<Ch.lbracket>> \o JoinComma([i \in 1..Len(v.a) |-> JSONstringify(v.a[i])])
                \o <<Ch.rbracket>>
      [] v.t = "obj" ->
            <<Ch.lbrace>>
                \o JoinComma([i \in 1..Len(v.a) |->
                       QuoteString(v.a[i].s) \o <<Ch.colon>> \o JSONstringify(v.a[i].a[1])])
                \o <<Ch.rbrace>>

\* ------------------------------------------------ TextEncoder / TextDecoder

utf8EncodeChar(c) ==
    IF c < 128 THEN <<c>>
    ELSE IF c < 2048 THEN <<192 + (c \div 64), 128 + (c % 64)>>
    ELSE <<224 + (c \div 4096), 128 + ((c \div 64) % 64), 128 + (c % 64)>>

utf8Encode(cs) == Flatten([i \in 1..Len(cs) |-> utf8EncodeChar(cs[i])])

IsCont(bs, i) == i <= Len(bs) /\ bs[i] >= 128 /\ bs[i] < 192

\* TextDecoder("utf-8", {fatal: false}): a malformed byte decodes to U+FFFD.
RECURSIVE utf8DecodeFrom(_, _)
utf8DecodeFrom(bs, i) ==
    IF i > Len(bs) THEN <<>>
    ELSE IF bs[i] < 128 THEN <<bs[i]>> \o utf8DecodeFrom(bs, i + 1)
    ELSE IF bs[i] >= 194 /\ bs[i] < 224 /\ IsCont(bs, i + 1)
        THEN <<(bs[i] - 192) * 64 + (bs[i + 1] - 128)>> \o utf8DecodeFrom(bs, i + 2)
    ELSE IF bs[i] >= 224 /\ bs[i] < 240 /\ IsCont(bs, i + 1) /\ IsCont(bs, i + 2)
            /\ (bs[i] - 224) * 4096 + (bs[i + 1] - 128) * 64 + (bs[i + 2] - 128) >= 2048
        THEN <<(bs[i] - 224) * 4096 + (bs[i + 1] - 128) * 64 + (bs[i + 2] - 128)>>
                 \o utf8DecodeFrom(bs, i + 3)
    ELSE <<Ch.replacement>> \o utf8DecodeFrom(bs, i + 1)

utf8Decode(bs) == utf8DecodeFrom(bs, 1)

\* -------------------------------------------------------------- JSON.parse
\* Recursive descent over the JSON grammar for the null/true/false literals,
\* integers, strings with the two-character escapes, arrays and objects.
\* A parse result is [ok, v, pos]: pos is the index of the first unread
\* character.  Fractions, exponents and \uXXXX escapes are outside the
\* alphabet of the modelled inputs.

ParseFail == [ok |-> FALSE, v |-> JNull, pos |-> 0]

ParseOk(v, pos) == [ok |-> TRUE, v |-> v, pos |-> pos]

IsWs(c) == c \in {Ch.space, Ch.tab, Ch.lf, Ch.cr}

IsDigit(c) == c >= Ch.zero /\ c <= Ch.nine

RECURSIVE SkipWs(_, _)
SkipWs(s, i) == IF i <= Len(s) /\ IsWs(s[i]) THEN SkipWs(s, i + 1) ELSE i

HasLiteral(s, i, lit) == i + Len(lit) - 1 <= Len(s) /\ SubSeq(s, i, i + Len(lit) - 1) = lit

\* The character an escape sequence \c stands for; 0 when \c is no escape.
Unescape(c) ==
    CASE c = 34 -> 34
      [] c = 92 -> 92
      [] c = 47 -> 47
      [] c = 110 -> 10
      [] c = 116 -> 9
      [] c = 114 -> 13
      [] c = 98 -> 8
      [] c = 102 -> 12
      [] OTHER -> 0

RECURSIVE ParseStringBody(_, _, _)
ParseStringBody(s, i, acc) ==
    IF i > Len(s) THEN ParseFail
    ELSE IF s[i] = Ch.quote THEN ParseOk(JStr(acc), i + 1)
    ELSE IF s[i] = Ch.backslash
        THEN IF i + 1 > Len(s) \/ Unescape(s[i + 1]) = 0 THEN ParseFail
             ELSE ParseStringBody(s, i + 2, Append(acc, Unescape(s[i + 1])))
    ELSE IF s[i] < 32 THEN ParseFail
    ELSE ParseStringBody(s, i + 1, Append(acc, s[i]))

RECURSIVE ParseDigits(_, _, _)
ParseDigits(s, i, acc) ==
    IF i <= Len(s) /\ IsDigit(s[i])
    THEN ParseDigits(s, i + 1, acc * 10 + (s[i] - Ch.zero))
    ELSE ParseOk(JNum(acc), i)

\* int = "0" | digit1-9 *digit
ParseNat(s, i) ==
    IF i > Len(s) \/ ~IsDigit(s[i]) THEN ParseFail
    ELSE IF s[i] = Ch.zero THEN ParseOk(JNum(0), i + 1)
    ELSE ParseDigits(s, i, 0)

ParseNumber(s, i) ==
    IF s[i] = Ch.minus
    THEN LET r == ParseNat(s, i + 1)
         IN IF r.ok THEN ParseOk(JNum(0 - r.v.n), r.pos) ELSE ParseFail
    ELSE ParseNat(s, i)

\* A later duplicate key overwrites the value and keeps the first position.
ObjSet(ms, k, v) ==
    IF \E i \in 1..Len(ms) : ms[i].s = k
    THEN [i \in 1..Len(ms) |-> IF ms[i].s = k THEN JMember(k, v) ELSE ms[i]]
    ELSE Append(ms, JMember(k, v))

RECURSIVE ParseValue(_, _), ParseElements(_, _, _), ParseMembers(_, _, _)

ParseElements(s, i, acc) ==
    LET r == ParseValue(s, i)
        j == SkipWs(s, r.pos)
    IN IF ~r.ok \/ j > Len(s) THEN ParseFail
       ELSE IF s[j] = Ch.comma THEN ParseElements(s, j + 1, Append(acc, r.v))
       ELSE IF s[j] = Ch.rbracket THEN ParseOk(JArr(Append(acc, r.v)), j + 1)
       ELSE ParseFail

ParseMembers(s, i, acc) ==
    LET k == SkipWs(s, i)
        key == IF k <= Len(s) /\ s[k] = Ch.quote THEN ParseStringBody(s, k + 1, <<>>)
               ELSE ParseFail
        c == SkipWs(s, key.pos)
        r == IF key.ok /\ c <= Len(s) /\ s[c] = Ch.colon THEN ParseValue(s, c + 1)
             ELSE ParseFail
        j == SkipWs(s, r.pos)
    IN IF ~r.ok \/ j > Len(s) THEN ParseFail
       ELSE IF s[j] = Ch.comma THEN ParseMembers(s, j + 1, ObjSet(acc, key.v.s, r.v))
       ELSE IF s[j] = Ch.rbrace THEN ParseOk(JObj(ObjSet(acc, key.v.s, r.v)), j + 1)
       ELSE ParseFail

ParseArray(s, i) ==
    LET j == SkipWs(s, i)
    IN IF j <= Len(s) /\ s[j] = Ch.rbracket THEN ParseOk(JArr(<<>>), j + 1)
       ELSE ParseElements(s, j, <<>>)

ParseObject(s, i) ==
    LET j == SkipWs(s, i)
    IN IF j <= Len(s) /\ s[j] = Ch.rbrace THEN ParseOk(JObj(<<>>), j + 1)
       ELSE ParseMembers(s, j, <<>>)

ParseValue(s, i) ==
    LET j == SkipWs(s, i)
    IN IF j > Len(s) THEN ParseFail
       ELSE IF s[j] = Ch.quote THEN ParseStringBody(s, j + 1, <<>>)
       ELSE IF s[j] = Ch.lbracket THEN ParseArray(s, j + 1)
       ELSE IF s[j] = Ch.lbrace THEN ParseObject(s, j + 1)
       ELSE IF HasLiteral(s, j, LitNull) THEN ParseOk(JNull, j + Len(LitNull))
       ELSE IF HasLiteral(s, j, LitTrue) THEN ParseOk(JTrue, j + Len(LitTrue))
       ELSE IF HasLiteral(s, j, LitFalse) THEN ParseOk(JFalse, j + Len(LitFalse))
       ELSE IF s[j] = Ch.minus \/ IsDigit(s[j]) THEN ParseNumber(s, j)
       ELSE ParseFail

\* JSON.parse(text): [ok, v]; ok is FALSE where JSON.parse throws SyntaxError.
JSONparse(s) ==
    LET r == ParseValue(s, 1)
    IN IF r.ok /\ SkipWs(s, r.pos) > Len(s) THEN r ELSE ParseFail

\* --------------------------------------------------------------- framing

\* Mutant of setUint32: the length written little-endian.
setUint32_littleEndian(n) ==
    <<n % 256, (n \div 256) % 256, (n \div 65536) % 256, (n \div 16777216) % 256>>

\* DataView.setUint32(0, n, false): n as four big-endian bytes.
setUint32(n) ==
    <<(n \div 16777216) % 256, (n \div 65536) % 256, (n \div 256) % 256, n % 256>>

\* DataView.getUint32(0, false) on the four bytes of buf that follow off.
getUint32(buf, off) ==
    buf[off + 1] * 16777216 + buf[off + 2] * 65536 + buf[off + 3] * 256 + buf[off + 4]

encodeFrame(message) ==
    LET json == JSONstringify(message)
        body == utf8Encode(json)
        header == setUint32(Len(body))
    IN header \o body

\* The declared payload length above which push throws "Frame too large".
MaxFrameBytes == 100 * 1024 * 1024

\* Mutant of Compact: the consumed bytes stay in front of the buffer.
Compact_keepsConsumed(buffer, offset) == buffer

\* this.buffer.slice(this.offset) at the start of a push.
Compact(buffer, offset) == IF offset > 0 THEN Slice(buffer, offset, Len(buffer)) ELSE buffer

\* Mutant of AppendChunk: the bytes buffered by earlier pushes are dropped.
AppendChunk_dropsBuffered(buffer, chunk) == chunk

\* next.set(this.buffer, 0); next.set(chunk, this.buffer.byteLength)
AppendChunk(buffer, chunk) == buffer \o chunk

\* Mutant of DecodeLoop: one frame is extracted per push instead of looping.
DecodeLoop_singleFrame(buffer, offset, out) ==
    LET remaining == Len(buffer) - offset
        length == getUint32(buffer, offset)
        end == offset + 4 + length
        parsed == JSONparse(utf8Decode(Slice(buffer, offset + 4, end)))
    IN IF remaining < 4
       THEN [buffer |-> buffer, offset |-> offset, out |-> out, err |-> "none"]
       ELSE IF length > MaxFrameBytes
       THEN [buffer |-> buffer, offset |-> offset, out |-> out, err |-> "too_large"]
       ELSE IF remaining < 4 + length
       THEN [buffer |-> buffer, offset |-> offset, out |-> out, err |-> "none"]
       ELSE IF ~parsed.ok
       THEN [buffer |-> buffer, offset |-> end, out |-> out, err |-> "invalid_json"]
       ELSE [buffer |-> buffer, offset |-> end, out |-> Append(out, parsed.v), err |-> "none"]

\* Mutant of DecodeLoop: the ceiling is tested only once the whole declared
\* payload is buffered.
RECURSIVE DecodeLoop_lateCeiling(_, _, _)
DecodeLoop_lateCeiling(buffer, offset, out) ==
    LET remaining == Len(buffer) - offset
        length == getUint32(buffer, offset)
        end == offset + 4 + length
        parsed == JSONparse(utf8Decode(Slice(buffer, offset + 4, end)))
    IN IF remaining < 4
       THEN [buffer |-> buffer, offset |-> offset, out |-> out, err |-> "none"]
       ELSE IF remaining < 4 + length
       THEN [buffer |-> buffer, offset |-> offset, out |-> out, err |-> "none"]
       ELSE IF length > MaxFrameBytes
       THEN [buffer |-> buffer, offset |-> offset, out |-> out, err |-> "too_large"]
       ELSE IF ~parsed.ok
       THEN [buffer |-> buffer, offset |-> end, out |-> out, err |-> "invalid_json"]
       ELSE DecodeLoop_lateCeiling(buffer, end, Append(out, parsed.v))

\* The while (true) loop of push.  err is "none" when the loop ends by break,
\* "too_large" or "invalid_json" when it ends by throw; the fields buffer and
\* offset are the decoder's fields at that moment.
RECURSIVE DecodeLoop(_, _, _)
DecodeLoop(buffer, offset, out) ==
    LET remaining == Len(buffer) - offset
        length == getUint32(buffer, offset)
        start == offset + 4
        end == start + length
        payload == Slice(buffer, start, end)
        parsed == JSONparse(utf8Decode(payload))
    IN IF remaining < 4
       THEN [buffer |-> buffer, offset |-> offset, out |-> out, err |-> "none"]
       ELSE IF length > MaxFrameBytes
       THEN [buffer |-> buffer, offset |-> offset, out |-> out, err |-> "too_large"]
       ELSE IF remaining < 4 + length
       THEN [buffer |-> buffer, offset |-> offset, out |-> out, err |-> "none"]
       ELSE IF ~parsed.ok
       THEN [buffer |-> buffer, offset |-> end, out |-> out, err |-> "invalid_json"]
       ELSE DecodeLoop(buffer, end, Append(out, parsed.v))

\* "If we've consumed everything, reset to avoid unbounded growth."
ResetIfDrained(r) ==
    IF r.err = "none" /\ r.offset = Len(r.buffer)
    THEN [r EXCEPT !.buffer = <<>>, !.offset = 0]
    ELSE r

\* FrameDecoder.push(chunk) on a decoder whose fields are buffer and offset:
\* the fields afterwards, the returned list out (lost when err # "none").
push(buffer, offset, chunk) ==
    IF Len(chunk) = 0
    THEN [buffer |-> buffer, offset |-> offset, out |-> <<>>, err |-> "none"]
    ELSE ResetIfDrained(DecodeLoop(AppendChunk(Compact(buffer, offset), chunk), 0, <<>>))

\* The while loop of the agent's FrameDecoder.push: the driver's loop
\* without a test of the declared length.
RECURSIVE agentDecodeLoop(_, _, _)
agentDecodeLoop(buffer, offset, out) ==
    LET remaining == Len(buffer) - offset
        length == getUint32(buffer, offset)
        start == offset + 4
        end == start + length
        payload == Slice(buffer, start, end)
        parsed == JSONparse(utf8Decode(payload))
    IN IF remaining < 4
       THEN [buffer |-> buffer, offset |-> offset, out |-> out, err |-> "none"]
       ELSE IF remaining < 4 + length
       THEN [buffer |-> buffer, offset |-> offset, out |-> out, err |-> "none"]
       ELSE IF ~parsed.ok
       THEN [buffer |-> buffer, offset |-> end, out |-> out, err |-> "invalid_json"]
       ELSE agentDecodeLoop(buffer, end, Append(out, parsed.v))

\* The agent's FrameDecoder.push(chunk); err is "invalid_json" when
\* JSON.parse threw its SyntaxError.
agentPush(buffer, offset, chunk) ==
    IF Len(chunk) = 0
    THEN [buffer |-> buffer, offset |-> offset, out |-> <<>>, err |-> "none"]
    ELSE ResetIfDrained(agentDecodeLoop(AppendChunk(Compact(buffer, offset), chunk), 0, <<>>))

\* ================================================================= state

VARIABLES
    frames,     \* the frames the peer writes, in wire order: [raw, v, bytes]
    wire,       \* the bytes of those frames, concatenated
    pos,        \* how many bytes of wire have been handed to the decoder
    buffer,     \* FrameDecoder.buffer
    offset,     \* FrameDecoder.offset
    lastOut,    \* the list the most recent push returned (<<>> when it threw)
    derr        \* "none", or the FramingError the most recent push threw

codecVars == <<frames, wire, pos, buffer, offset, lastOut, derr>>

VARIABLES
    queue,      \* StdioJsonTransport.queue: decoded messages no pull has taken
    waiters,    \* StdioJsonTransport.waiters: the pending pulls, oldest first
    ended,      \* StdioJsonTransport.ended
    pulls,      \* the promise of every next() call, in call order: [state, v]
    attached,   \* the data, end and error listeners are on the readable
    sendCalls,  \* the promise of every send() call, in call order: [state, ok]
    written,    \* the frames handed to writable.write, in order
    needDrain   \* a write returned false and the sink has not drained since

transportVars == <<queue, waiters, ended, pulls, attached, sendCalls, written, needDrain>>

VARIABLES
    aconfig,        \* the agent's config: [chunks, emitToolCalls, streaming]
    inbox,          \* every request the agent's stdin has received, in order
    taken,          \* how many requests of inbox handleChunk has begun
    sessions,       \* the agent's sessions map: id -> [history, turns]
    sessionCounter, \* the agent's sessionCounter
    outbox,         \* every message written towards the driver, in order
    apc,            \* where the agent is: "boot", "idle", "turn" or "subscribe"
    turn,           \* locals of the session/send or chats/subscribe being handled
    chats,          \* the agent's chats map: id -> [prompt, turns, cancelled, status]
    chatOrder,      \* the agent's chatOrder: chat ids in creation order
    chatCounter     \* the agent's chatCounter

agentVars ==
    <<aconfig, inbox, taken, sessions, sessionCounter, outbox, apc, turn,
      chats, chatOrder, chatCounter>>

VARIABLES
    cop,            \* the driver call in progress: "none", "waitForType", "sendAndWaitComplete"
    cwant,          \* waitForType: the type awaited
    csid,           \* sendAndWaitComplete: params.sessionId
    cpc,            \* the call's promise: "idle", "waiting", "returned", "rejected"
    cerr,           \* the error a rejected call threw: "none", "closed", "end", "timeout"
    deltasByIndex,  \* sendAndWaitComplete: the Map, as its entries in insertion order
    forwarded,      \* the deltas handed to params.onDelta, in call order
    cresult,        \* the value a returned call resolved with: [msg, combined]
    rd,             \* how many messages of outbox the driver's iterator has yielded
    timer,          \* nextMessage's timeout: "off", "armed", "fired"
    uncaught        \* an exception was thrown outside every caller (uncaughtException)

clientVars ==
    <<cop, cwant, csid, cpc, cerr, deltasByIndex, forwarded, cresult, rd, timer, uncaught>>

VARIABLES
    dpc,            \* Chat.send: "idle", "awaitReady", "awaitStarted", "sending"
    dprompt,        \* Chat.send: the prompt
    dprior,         \* runTaskSend: history, the chat's history as readChat returned it
    dqueue,         \* runTaskSend: the contents still to be sent in this run
    dresult,        \* runTaskSend: the value it returned, [combined, history]
    dreply,         \* Chat.send: the string it returned
    persisted       \* the history field of the chat file

chatVars == <<dpc, dprompt, dprior, dqueue, dresult, dreply, persisted>>

\* The host process: the Agnet instance's provider map and the outcome of
\* the last default resolution; the environment handed to spawnLocalAgent
\* and the environment the child was given.
VARIABLES
    providersById,  \* Agnet.providersById: the provider refs in Map insertion order
    registrations,  \* history: the refs loaded at construction, then each register call's
    resolved,       \* resolveDefaultProvider: what the last call returned or threw
    env,            \* spawnLocalAgent: parentEnv, its entries in insertion order
    childEnv,       \* spawnLocalAgent: the env option given to spawn
    calls,          \* the Chat.send calls in flight on one chat: [pc, prompt, prior, history]
    child,          \* the ChildProcess of a connection: [state, killed, exitCode]
    closeCalls      \* the promises conn.close() returned: [state, childWas]

hostVars ==
    <<providersById, registrations, resolved, env, childEnv, calls, child, closeCalls>>

vars == <<codecVars, transportVars, agentVars, clientVars, chatVars, hostVars>>

\* ------------------------------------------------------- the inbound wire

\* Values a peer encodes: an object holding a two-digit number, a string with
\* a two-byte UTF-8 character and a character JSON.stringify escapes, an array
\* holding a literal.
JsonValues ==
    { JObj(<<JMember(<<97>>, JNum(10))>>),
      JStr(<<233, 34>>),
      JArr(<<JTrue>>) }

\* Frames no encodeFrame produces: a payload that is not JSON, a header above
\* the ceiling, a header exactly at the ceiling.
RawFrameBytes ==
    { <<0, 0, 0, 1, 120>>,
      <<6, 64, 0, 1>>,
      <<6, 64, 0, 0>> }

Frames ==
    { [raw |-> FALSE, v |-> v, bytes |-> encodeFrame(v)] : v \in JsonValues }
        \cup { [raw |-> TRUE, v |-> JNull, bytes |-> b] : b \in RawFrameBytes }

FrameSeqs == UNION { [1..n -> Frames] : n \in 1..MaxFrames }

WireOf(fs) == Flatten([i \in 1..Len(fs) |-> fs[i].bytes])

AllEncoded(fs) == \A i \in 1..Len(fs) : ~fs[i].raw

ValuesOf(fs) == [i \in 1..Len(fs) |-> fs[i].v]

\* ======================================================== protocol messages
\* Text is a sequence of one-character strings.  A session id is [name, n]:
\* a requested id has n = 0, the id the agent generates from its counter k is
\* "session-k", written [name |-> "session-", n |-> k].

Sid(name) == [name |-> name, n |-> 0]

GenSid(k) == [name |-> "session-", n |-> k]

\* The sessionId field is absent (or not a string).
NoSid == [name |-> "", n |-> -1]

\* One record shape for every message; a field a type does not carry keeps
\* its value here.  index = -1 stands for an index that is not a number.
BlankMsg ==
    [type |-> "", sessionId |-> NoSid, content |-> <<>>, index |-> -1, delta |-> <<>>,
     history |-> <<>>, turn |-> 0, inputLength |-> 0,
     chatId |-> NoSid, status |-> "", version |-> 0,
     cursor |-> <<>>, limit |-> <<>>, chats |-> <<>>]

SessionStartMsg(sid) == [BlankMsg EXCEPT !.type = "session/start", !.sessionId = sid]

SessionSendMsg(sid, content) ==
    [BlankMsg EXCEPT !.type = "session/send", !.sessionId = sid, !.content = content]

\* { type: "ready", pid, version: 1 }; the pid is left out.
ReadyMsg == [BlankMsg EXCEPT !.type = "ready", !.version = 1]

SessionStartedMsg(sid) == [BlankMsg EXCEPT !.type = "session/started", !.sessionId = sid]

ToolCallMsg(sid, t, len) ==
    [BlankMsg EXCEPT !.type = "tool/call", !.sessionId = sid, !.turn = t, !.inputLength = len]

SessionStreamMsg(sid, i, d) ==
    [BlankMsg EXCEPT !.type = "session/stream", !.sessionId = sid, !.index = i, !.delta = d]

SessionCompleteMsg(sid, content, history) ==
    [BlankMsg EXCEPT !.type = "session/complete", !.sessionId = sid, !.content = content,
                     !.history = history]

ChatMessage(role, content) == [role |-> role, content |-> content]

\* `chat-${k}`, the chat id the agent generates from its chatCounter.
GenChatId(k) == [name |-> "chat-", n |-> k]

\* chats/create; content carries the prompt.
ChatsCreateMsg(chatId, prompt) ==
    [BlankMsg EXCEPT !.type = "chats/create", !.chatId = chatId, !.content = prompt]

\* chats/list; an absent cursor or limit is the empty text, which the
\* handler treats as absent.  No providerId is sent.
ChatsListMsg(cursor, limit) ==
    [BlankMsg EXCEPT !.type = "chats/list", !.cursor = cursor, !.limit = limit]

\* chats/listResult; chats holds the ids of the page's chat objects, cursor
\* the nextCursor (empty when undefined).
ChatsListResultMsg(page, nextCursor) ==
    [BlankMsg EXCEPT !.type = "chats/listResult", !.chats = page, !.cursor = nextCursor]

ChatsGetMsg(chatId) == [BlankMsg EXCEPT !.type = "chats/get", !.chatId = chatId]

ChatsCancelMsg(chatId) == [BlankMsg EXCEPT !.type = "chats/cancel", !.chatId = chatId]

ChatsSubscribeMsg(chatId) == [BlankMsg EXCEPT !.type = "chats/subscribe", !.chatId = chatId]

\* The replies and events of the chats branches, timestamps left out; status
\* is the status of the chat object the message carries, turn the turn
\* number in a delta's messageId.
ChatsCreatedMsg(chatId, status) ==
    [BlankMsg EXCEPT !.type = "chats/created", !.chatId = chatId, !.status = status]

ChatsGetResultMsg(chatId, status) ==
    [BlankMsg EXCEPT !.type = "chats/getResult", !.chatId = chatId, !.status = status]

ChatsErrorMsg(chatId) == [BlankMsg EXCEPT !.type = "chats/error", !.chatId = chatId]

ChatsCancelResultMsg == [BlankMsg EXCEPT !.type = "chats/cancelResult"]

ChatEventMsg(type, chatId, status) ==
    [BlankMsg EXCEPT !.type = type, !.chatId = chatId, !.status = status]

MessageDeltaMsg(chatId, t, i, d) ==
    [BlankMsg EXCEPT !.type = "message.delta", !.chatId = chatId, !.turn = t,
                     !.index = i, !.delta = d]

NoResult == [msg |-> BlankMsg, combined |-> <<>>]

NoRun == [combined |-> <<>>, history |-> <<>>]

\* No chat takes part.
ChatAbsent ==
    /\ dpc = "idle" /\ dprompt = <<>> /\ dprior = <<>> /\ dqueue = <<>>
    /\ dresult = NoRun /\ dreply = <<>> /\ persisted = <<>>

NotResolved == [ok |-> FALSE, id |-> "", why |-> "none"]

NotSpawned == [spawned |-> FALSE, thrown |-> FALSE, same |-> FALSE, entries |-> <<>>]

\* No host-side registry or spawn takes part.
\* No Chat.send call is in flight.
NoCalls == <<>>

\* No child process: exitCode -1 stands for null.
NoChild == [state |-> "none", killed |-> FALSE, exitCode |-> 0 - 1]

HostAbsent ==
    /\ providersById = <<>> /\ registrations = <<>> /\ resolved = NotResolved
    /\ env = <<>> /\ childEnv = NotSpawned
    /\ calls = NoCalls /\ child = NoChild /\ closeCalls = <<>>

\* No driver call takes part.
ClientAbsent ==
    /\ cop = "none" /\ cwant = "" /\ csid = NoSid
    /\ cpc = "idle" /\ cerr = "none"
    /\ deltasByIndex = <<>> /\ forwarded = <<>> /\ cresult = NoResult
    /\ rd = 0 /\ timer = "off" /\ uncaught = FALSE

\* ============================================================== mock agent

DigitChar == <<"0", "1", "2", "3", "4", "5", "6", "7", "8", "9">>

\* `${n}` for a non-negative integer n.
RECURSIVE DecStr(_)
DecStr(k) ==
    IF k < 10 THEN <<DigitChar[k + 1]>> ELSE Append(DecStr(k \div 10), DigitChar[(k % 10) + 1])

MockAgentPrefix ==
    <<"M", "o", "c", "k", "A", "g", "e", "n", "t", " ",
      "r", "e", "s", "p", "o", "n", "s", "e", " ", "#">>

\* `MockAgent response #${session.turns}: ${content}`
AssistantContent(turns, content) == MockAgentPrefix \o DecStr(turns) \o <<":", " ">> \o content

CeilDiv(a, b) == (a + b - 1) \div b

Min(a, b) == IF a < b THEN a ELSE b

\* The for loop of chunkString, from iteration i on.
RECURSIVE chunkLoop(_, _, _, _)
chunkLoop(text, parts, size, i) ==
    IF i >= parts \/ i * size >= Len(text) THEN <<>>
    ELSE <<Slice(text, i * size, Min(Len(text), (i + 1) * size))>>
             \o chunkLoop(text, parts, size, i + 1)

\* Mutant of chunkString: the chunk size is rounded down.
chunkString_floor(text, parts) ==
    IF parts <= 1 THEN <<text>>
    ELSE LET chunks == chunkLoop(text, parts, Len(text) \div parts, 0)
         IN IF Len(chunks) > 0 THEN chunks ELSE << <<>> >>

chunkString(text, parts) ==
    IF parts <= 1 THEN <<text>>
    ELSE LET chunks == chunkLoop(text, parts, CeilDiv(Len(text), parts), 0)
         IN IF Len(chunks) > 0 THEN chunks ELSE << <<>> >>

\* getOrCreateSession(sessionId) on the map ss: the map afterwards.
getOrCreateSession(ss, sid) ==
    IF sid \in DOMAIN ss THEN ss ELSE ss @@ (sid :> [history |-> <<>>, turns |-> 0])

NoTurn == [sid |-> NoSid, content |-> <<>>, assistantContent |-> <<>>, deltas |-> <<>>, i |-> 0]

\* No agent process takes part.
AgentAbsent ==
    /\ aconfig = [chunks |-> 1, emitToolCalls |-> FALSE, streaming |-> TRUE]
    /\ inbox = <<>>
    /\ taken = 0
    /\ sessions = <<>>
    /\ sessionCounter = 0
    /\ outbox = <<>>
    /\ apc = "absent"
    /\ turn = NoTurn
    /\ chats = <<>> /\ chatOrder = <<>> /\ chatCounter = 0

AgentConfigs ==
    { [chunks |-> c, emitToolCalls |-> t, streaming |-> st] :
          c \in 1..MaxChunks, t \in BOOLEAN, st \in BOOLEAN }

\* The process has been spawned with some argv.
AgentSpawned ==
    /\ aconfig \in AgentConfigs
    /\ inbox = <<>>
    /\ taken = 0
    /\ sessions = <<>>
    /\ sessionCounter = 0
    /\ outbox = <<>>
    /\ apc = "boot"
    /\ turn = NoTurn
    /\ chats = <<>> /\ chatOrder = <<>> /\ chatCounter = 0

\* await writeMessage({ type: "ready", ... }) at module top level.
AgentReady ==
    /\ apc = "boot"
    /\ outbox' = Append(outbox, ReadyMsg)
    /\ apc' = "idle"
    /\ UNCHANGED <<aconfig, chats, chatOrder, chatCounter, inbox, taken, sessions, sessionCounter, turn>>
    /\ UNCHANGED <<codecVars, transportVars, clientVars, chatVars, hostVars>>

NextRequest == inbox[taken + 1]

\* Mutant of CanTake: the stdin listener is attached before ready is written.
CanTake_beforeReady == apc \in {"boot", "idle"} /\ taken < Len(inbox)

\* Mutant of CanTake: a chunk is handled when it arrives, whether or not
\* the previous handleChunk has returned.
CanTake_duringTurn == apc \in {"idle", "turn"} /\ taken < Len(inbox)

\* The chain handles the next stdin chunk: the listener is attached (after
\* the ready write) and the previous handleChunk has returned.
CanTake == apc = "idle" /\ taken < Len(inbox)

\* handleChunk, msg.type === "session/start".
AgentSessionStart ==
    /\ CanTake
    /\ NextRequest.type = "session/start"
    /\ LET generated == NextRequest.sessionId = NoSid
           sid == IF generated THEN GenSid(sessionCounter + 1) ELSE NextRequest.sessionId
       IN /\ sessionCounter' = IF generated THEN sessionCounter + 1 ELSE sessionCounter
          /\ sessions' = getOrCreateSession(sessions, sid)
          /\ outbox' = Append(outbox, SessionStartedMsg(sid))
    /\ taken' = taken + 1
    /\ UNCHANGED <<aconfig, chats, chatOrder, chatCounter, inbox, apc, turn>>
    /\ UNCHANGED <<codecVars, transportVars, clientVars, chatVars, hostVars>>

\* session.history.push({ role: "user", content }); session.turns += 1
PushUserTurn(session, content) ==
    [session EXCEPT !.history = Append(@, ChatMessage("user", content)), !.turns = @ + 1]

\* handleChunk, msg.type === "session/send", up to the first write.
AgentSendBegin ==
    /\ CanTake
    /\ NextRequest.type = "session/send"
    /\ LET generated == NextRequest.sessionId = NoSid
           sid == IF generated THEN GenSid(sessionCounter + 1) ELSE NextRequest.sessionId
           content == NextRequest.content
           ss == getOrCreateSession(sessions, sid)
           session == PushUserTurn(ss[sid], content)
           assistantContent == AssistantContent(session.turns, content)
       IN /\ sessionCounter' = IF generated THEN sessionCounter + 1 ELSE sessionCounter
          /\ sessions' = [ss EXCEPT ![sid] = session]
          /\ turn' = [sid |-> sid, content |-> content,
                      assistantContent |-> assistantContent,
                      deltas |-> chunkString(assistantContent, aconfig.chunks), i |-> 0]
          /\ outbox' = IF aconfig.streaming /\ aconfig.emitToolCalls
                       THEN Append(outbox, ToolCallMsg(sid, session.turns, Len(content)))
                       ELSE outbox
    /\ taken' = taken + 1
    /\ apc' = "turn"
    /\ UNCHANGED <<aconfig, chats, chatOrder, chatCounter, inbox>>
    /\ UNCHANGED <<codecVars, transportVars, clientVars, chatVars, hostVars>>

\* One iteration of the streaming for loop.
AgentStreamDelta ==
    /\ apc = "turn"
    /\ aconfig.streaming
    /\ turn.i < Len(turn.deltas)
    /\ outbox' = Append(outbox, SessionStreamMsg(turn.sid, turn.i, turn.deltas[turn.i + 1]))
    /\ turn' = [turn EXCEPT !.i = @ + 1]
    /\ UNCHANGED <<aconfig, chats, chatOrder, chatCounter, inbox, taken, sessions, sessionCounter, apc>>
    /\ UNCHANGED <<codecVars, transportVars, clientVars, chatVars, hostVars>>

\* Mutant of PushAssistantTurn: the assistant message is put in front.
PushAssistantTurn_unshift(session, content) ==
    [session EXCEPT !.history = <<ChatMessage("assistant", content)>> \o @]

\* session.history.push(assistantMessage)
PushAssistantTurn(session, content) ==
    [session EXCEPT !.history = Append(@, ChatMessage("assistant", content))]

\* Mutant of AgentSendComplete: session/complete does not wait for the
\* streaming loop, whose remaining deltas are written after it.
AgentSendComplete_early ==
    /\ apc = "turn"
    /\ turn.assistantContent # <<>>
    /\ LET session == PushAssistantTurn(sessions[turn.sid], turn.assistantContent)
       IN /\ sessions' = [sessions EXCEPT ![turn.sid] = session]
          /\ outbox' = Append(outbox,
                 SessionCompleteMsg(turn.sid, turn.assistantContent, session.history))
    /\ apc' = IF ~aconfig.streaming \/ turn.i >= Len(turn.deltas) THEN "idle" ELSE "turn"
    /\ turn' = IF ~aconfig.streaming \/ turn.i >= Len(turn.deltas)
               THEN NoTurn ELSE [turn EXCEPT !.assistantContent = <<>>]
    /\ UNCHANGED <<aconfig, chats, chatOrder, chatCounter, inbox, taken, sessionCounter>>
    /\ UNCHANGED <<codecVars, transportVars, clientVars, chatVars, hostVars>>

\* The end of the session/send branch: the assistant message is appended and
\* session/complete is written with a copy of the history.
AgentSendComplete ==
    /\ apc = "turn"
    /\ ~aconfig.streaming \/ turn.i >= Len(turn.deltas)
    /\ LET session == PushAssistantTurn(sessions[turn.sid], turn.assistantContent)
       IN /\ sessions' = [sessions EXCEPT ![turn.sid] = session]
          /\ outbox' = Append(outbox,
                 SessionCompleteMsg(turn.sid, turn.assistantContent, session.history))
    /\ apc' = "idle"
    /\ turn' = NoTurn
    /\ UNCHANGED <<aconfig, chats, chatOrder, chatCounter, inbox, taken, sessionCounter>>
    /\ UNCHANGED <<codecVars, transportVars, clientVars, chatVars, hostVars>>

\* A message whose type no branch of handleChunk matches is skipped.
AgentSkip ==
    /\ CanTake
    /\ NextRequest.type \notin {"session/start", "session/send", "chats/create",
                                "chats/list", "chats/get",
                                "chats/cancel", "chats/subscribe"}
    /\ taken' = taken + 1
    /\ UNCHANGED <<aconfig, chats, chatOrder, chatCounter, inbox, sessions, sessionCounter, outbox, apc, turn>>
    /\ UNCHANGED <<codecVars, transportVars, clientVars, chatVars, hostVars>>

\* Contents a driver sends.
Contents == { <<"a">>, <<"b", "c">> }

\* Requests a peer writes to the agent's stdin.
Requests ==
    { SessionStartMsg(Sid("s1")), SessionStartMsg(NoSid),
      SessionSendMsg(Sid("s1"), <<"a">>), SessionSendMsg(Sid("s1"), <<"b", "c">>),
      SessionSendMsg(Sid("s2"), <<"a">>), SessionSendMsg(NoSid, <<"a">>),
      [BlankMsg EXCEPT !.type = "ping"] }

\* A frame arrives on stdin; its handling is chained behind the earlier ones.
AgentReceive ==
    /\ Len(inbox) < MaxRequests
    /\ \E r \in Requests : inbox' = Append(inbox, r)
    /\ UNCHANGED <<aconfig, chats, chatOrder, chatCounter, taken, sessions, sessionCounter, outbox, apc, turn>>
    /\ UNCHANGED <<codecVars, transportVars, clientVars, chatVars, hostVars>>

AgentInit ==
    /\ frames = <<>> /\ wire = <<>> /\ pos = 0
    /\ buffer = <<>> /\ offset = 0 /\ lastOut = <<>> /\ derr = "none"
    /\ queue = <<>> /\ waiters = <<>> /\ ended = FALSE /\ pulls = <<>>
    /\ attached = TRUE /\ sendCalls = <<>> /\ written = <<>> /\ needDrain = FALSE
    /\ AgentSpawned
    /\ ClientAbsent
    /\ ChatAbsent
    /\ HostAbsent

AgentNext ==
    \/ AgentReceive
    \/ AgentReady
    \/ AgentSessionStart
    \/ AgentSendBegin
    \/ AgentStreamDelta
    \/ AgentSendComplete
    \/ AgentSkip

AgentSpec == AgentInit /\ [][AgentNext]_vars

\* C20: ready comes first.  Until ready is written the agent has handled no
\* inbound message and written nothing; whatever the agent has written
\* starts with the ready message (version 1) and holds no second one, so no
\* session/started, session/stream, session/complete or chat message
\* precedes it.
C20_ReadyFirst ==
    /\ apc = "boot" => (taken = 0 /\ outbox = <<>>)
    /\ taken > 0 => outbox # <<>>
    /\ outbox # <<>>
         => /\ outbox[1] = ReadyMsg
            /\ outbox[1].type = "ready" /\ outbox[1].version = 1
            /\ \A i \in 2..Len(outbox) : outbox[i].type # "ready"

\* Requests were handled and answered, and the answers stand behind ready.
C20_Witness ==
    /\ Len(outbox) >= 3
    /\ outbox[1] = ReadyMsg
    /\ outbox[2].type = "session/started"
    /\ outbox[Len(outbox)].type = "session/complete"
    /\ taken = 2

\* ------------------------------------------------ mock agent, chats branches

MockTaskPrefix ==
    <<"M", "o", "c", "k", "T", "a", "s", "k", " ",
      "r", "e", "s", "p", "o", "n", "s", "e", " ", "#">>

\* String.prototype.trimEnd
RECURSIVE trimEnd(_)
trimEnd(text) ==
    IF text # <<>> /\ text[Len(text)] \in {" ", "\n", "\t", "\r"}
    THEN trimEnd(SubSeq(text, 1, Len(text) - 1))
    ELSE text

\* `MockTask response #${found.turns}: ${found.prompt || ""}`.trimEnd()
TaskContent(turns, prompt) ==
    trimEnd(MockTaskPrefix \o DecStr(turns) \o <<":", " ">> \o prompt)

\* Mutant of IsCancelled: the test never succeeds.
IsCancelled_never(found) == FALSE

\* found.status === "cancelled" || found.cancelled
IsCancelled(found) == found.status = "cancelled" \/ found.cancelled

\* handleChunk, msg.type === "chats/create".
AgentChatsCreate ==
    /\ CanTake
    /\ NextRequest.type = "chats/create"
    /\ LET generated == NextRequest.chatId = NoSid
           chatId == IF generated THEN GenChatId(chatCounter + 1) ELSE NextRequest.chatId
           prompt == NextRequest.content
           after == IF chatId \notin DOMAIN chats
                    THEN chats @@ (chatId :> [prompt |-> prompt, turns |-> 0,
                                              cancelled |-> FALSE, status |-> "created"])
                    ELSE IF Len(prompt) > 0
                    THEN [chats EXCEPT ![chatId].prompt = prompt]
                    ELSE chats
       IN /\ chatCounter' = IF generated THEN chatCounter + 1 ELSE chatCounter
          /\ chats' = after
          /\ chatOrder' = IF chatId \notin DOMAIN chats
                          THEN Append(chatOrder, chatId) ELSE chatOrder
          /\ outbox' = Append(outbox, ChatsCreatedMsg(chatId, after[chatId].status))
    /\ taken' = taken + 1
    /\ UNCHANGED <<aconfig, inbox, sessions, sessionCounter, apc, turn>>
    /\ UNCHANGED <<codecVars, transportVars, clientVars, chatVars, hostVars>>

IsDecimal(text) ==
    text # <<>> /\ \A i \in 1..Len(text) : \E d \in 1..10 : DigitChar[d] = text[i]

RECURSIVE DecimalValue(_)
DecimalValue(text) ==
    IF text = <<>> THEN 0
    ELSE DecimalValue(SubSeq(text, 1, Len(text) - 1)) * 10
             + (CHOOSE d \in 0..9 : DigitChar[d + 1] = text[Len(text)])

\* Number(text) for a text of decimal digits or a text that is no number
\* (NaN); other spellings of numbers are not among the inputs.
NumberOf(text) ==
    IF IsDecimal(text) THEN [finite |-> TRUE, n |-> DecimalValue(text)]
    ELSE [finite |-> FALSE, n |-> 0]

\* The limit of a chats/list without a usable limit field.
DefaultLimit == 50

\* let offset = 0; if (cursorRaw ...) { if (Number.isFinite(n) && n >= 0) ... }
ListOffset(cursorRaw) ==
    IF cursorRaw # <<>> /\ NumberOf(cursorRaw).finite /\ NumberOf(cursorRaw).n >= 0
    THEN NumberOf(cursorRaw).n ELSE 0

\* let limit = 50; if (limitRaw ...) { if (Number.isFinite(n) && n >= 1) ... }
ListLimit(limitRaw) ==
    IF limitRaw # <<>> /\ NumberOf(limitRaw).finite /\ NumberOf(limitRaw).n >= 1
    THEN NumberOf(limitRaw).n ELSE DefaultLimit

\* Array.prototype.slice(from, to) with 0 <= from <= to.
ArraySlice(a, from, to) == SubSeq(a, from + 1, Min(to, Len(a)))

\* Mutant of NextCursor: a cursor is returned also behind the last page.
NextCursor_always(skip, limit, total) == DecStr(skip + limit)

\* offset + limit < filtered.length ? String(offset + limit) : undefined
NextCursor(skip, limit, total) ==
    IF skip + limit < total THEN DecStr(skip + limit) ELSE <<>>

\* handleChunk, msg.type === "chats/list".
AgentChatsList ==
    /\ CanTake
    /\ NextRequest.type = "chats/list"
    /\ LET skip == ListOffset(NextRequest.cursor)
           limit == ListLimit(NextRequest.limit)
           all == chatOrder
           filtered == IF NextRequest.status # ""
                       THEN SelectSeq(all, LAMBDA id : chats[id].status = NextRequest.status)
                       ELSE all
           page == ArraySlice(filtered, skip, skip + limit)
           nextCursor == NextCursor(skip, limit, Len(filtered))
       IN outbox' = Append(outbox, ChatsListResultMsg(page, nextCursor))
    /\ taken' = taken + 1
    /\ UNCHANGED <<aconfig, chats, chatOrder, chatCounter, inbox, sessions, sessionCounter, apc, turn>>
    /\ UNCHANGED <<codecVars, transportVars, clientVars, chatVars, hostVars>>

\* Mutant of AgentChatsGet: an unknown chat id makes the agent exit after
\* the chats/error.
AgentChatsGet_exitsOnUnknown ==
    /\ CanTake
    /\ NextRequest.type = "chats/get"
    /\ LET chatId == NextRequest.chatId
       IN IF chatId \notin DOMAIN chats
          THEN /\ outbox' = Append(outbox, ChatsErrorMsg(chatId))
               /\ apc' = "absent"
          ELSE /\ outbox' = Append(outbox, ChatsGetResultMsg(chatId, chats[chatId].status))
               /\ UNCHANGED apc
    /\ taken' = taken + 1
    /\ UNCHANGED <<aconfig, chats, chatOrder, chatCounter, inbox, sessions, sessionCounter, turn>>
    /\ UNCHANGED <<codecVars, transportVars, clientVars, chatVars, hostVars>>

\* handleChunk, msg.type === "chats/get".
AgentChatsGet ==
    /\ CanTake
    /\ NextRequest.type = "chats/get"
    /\ LET chatId == NextRequest.chatId
       IN IF chatId \notin DOMAIN chats
          THEN outbox' = Append(outbox, ChatsErrorMsg(chatId))
          ELSE outbox' = Append(outbox, ChatsGetResultMsg(chatId, chats[chatId].status))
    /\ taken' = taken + 1
    /\ UNCHANGED <<aconfig, chats, chatOrder, chatCounter, inbox, sessions, sessionCounter, apc, turn>>
    /\ UNCHANGED <<codecVars, transportVars, clientVars, chatVars, hostVars>>

\* handleChunk, msg.type === "chats/cancel".
AgentChatsCancel ==
    /\ CanTake
    /\ NextRequest.type = "chats/cancel"
    /\ LET chatId == NextRequest.chatId
       IN IF chatId \notin DOMAIN chats
          THEN /\ outbox' = Append(outbox, ChatsErrorMsg(chatId))
               /\ UNCHANGED chats
          ELSE /\ chats' = [chats EXCEPT ![chatId].cancelled = TRUE,
                                         ![chatId].status = "cancelled"]
               /\ outbox' = Append(outbox, ChatsCancelResultMsg)
    /\ taken' = taken + 1
    /\ UNCHANGED <<aconfig, chatOrder, chatCounter, inbox, sessions, sessionCounter, apc, turn>>
    /\ UNCHANGED <<codecVars, transportVars, clientVars, chatVars, hostVars>>

\* handleChunk, msg.type === "chats/subscribe", up to the first write.
AgentChatsSubscribe ==
    /\ CanTake
    /\ NextRequest.type = "chats/subscribe"
    /\ LET chatId == NextRequest.chatId
           found == chats[chatId]
           assistantContent == TaskContent(found.turns + 1, found.prompt)
       IN IF chatId \notin DOMAIN chats
          THEN /\ outbox' = Append(outbox, ChatsErrorMsg(chatId))
               /\ UNCHANGED <<chats, apc, turn>>
          ELSE IF IsCancelled(found)
          THEN /\ outbox' = Append(outbox, ChatEventMsg("chat.cancelled", chatId, found.status))
               /\ UNCHANGED <<chats, apc, turn>>
          ELSE /\ chats' = [chats EXCEPT ![chatId].turns = @ + 1,
                                         ![chatId].status = "running"]
               /\ outbox' = Append(outbox, ChatEventMsg("chat.started", chatId, ""))
               /\ turn' = [sid |-> chatId, content |-> found.prompt,
                           assistantContent |-> assistantContent,
                           deltas |-> chunkString(assistantContent, aconfig.chunks),
                           i |-> 0]
               /\ apc' = "subscribe"
    /\ taken' = taken + 1
    /\ UNCHANGED <<aconfig, chatOrder, chatCounter, inbox, sessions, sessionCounter>>
    /\ UNCHANGED <<codecVars, transportVars, clientVars, chatVars, hostVars>>

\* One iteration of the delta loop of chats/subscribe: the cancelled flag is
\* tested, then chat.cancelled is written and the loop left, or the delta
\* is written.
AgentChatsDelta ==
    /\ apc = "subscribe"
    /\ turn.i < Len(turn.deltas)
    /\ IF IsCancelled(chats[turn.sid])
       THEN /\ outbox' = Append(outbox, ChatEventMsg("chat.cancelled", turn.sid,
                                                     chats[turn.sid].status))
            /\ apc' = "idle"
            /\ turn' = NoTurn
       ELSE /\ outbox' = Append(outbox, MessageDeltaMsg(turn.sid, chats[turn.sid].turns,
                                                        turn.i, turn.deltas[turn.i + 1]))
            /\ turn' = [turn EXCEPT !.i = @ + 1]
            /\ UNCHANGED apc
    /\ UNCHANGED <<aconfig, chats, chatOrder, chatCounter, inbox, taken, sessions,
                   sessionCounter>>
    /\ UNCHANGED <<codecVars, transportVars, clientVars, chatVars, hostVars>>

\* Mutant of AgentChatsComplete: the branch ends without writing an event.
AgentChatsComplete_silent ==
    /\ apc = "subscribe"
    /\ turn.i >= Len(turn.deltas)
    /\ apc' = "idle"
    /\ turn' = NoTurn
    /\ UNCHANGED <<aconfig, chats, chatOrder, chatCounter, inbox, taken, sessions,
                   sessionCounter, outbox>>
    /\ UNCHANGED <<codecVars, transportVars, clientVars, chatVars, hostVars>>

\* The end of the chats/subscribe branch: nothing more when the chat is
\* cancelled, else the status becomes "completed" and chat.completed is
\* written.
AgentChatsComplete ==
    /\ apc = "subscribe"
    /\ turn.i >= Len(turn.deltas)
    /\ IF IsCancelled(chats[turn.sid])
       THEN UNCHANGED <<chats, outbox>>
       ELSE /\ chats' = [chats EXCEPT ![turn.sid].status = "completed"]
            /\ outbox' = Append(outbox, ChatEventMsg("chat.completed", turn.sid, "completed"))
    /\ apc' = "idle"
    /\ turn' = NoTurn
    /\ UNCHANGED <<aconfig, chatOrder, chatCounter, inbox, taken, sessions, sessionCounter>>
    /\ UNCHANGED <<codecVars, transportVars, clientVars, chatVars, hostVars>>

\* Chat requests a peer writes to the agent's stdin.
ChatsRequests ==
    { ChatsCreateMsg(Sid("c1"), <<"a", "b">>), ChatsCreateMsg(NoSid, <<>>),
      ChatsCancelMsg(Sid("c1")), ChatsSubscribeMsg(Sid("c1")),
      ChatsSubscribeMsg(GenChatId(1)), ChatsGetMsg(Sid("c1")) }

\* A frame with a chat request arrives on stdin.
AgentChatsReceive ==
    /\ Len(inbox) < MaxRequests
    /\ \E r \in ChatsRequests : inbox' = Append(inbox, r)
    /\ UNCHANGED <<aconfig, chats, chatOrder, chatCounter, taken, sessions,
                   sessionCounter, outbox, apc, turn>>
    /\ UNCHANGED <<codecVars, transportVars, clientVars, chatVars, hostVars>>

AgentChatsNext ==
    \/ AgentChatsReceive
    \/ AgentReady
    \/ AgentChatsCreate
    \/ AgentChatsGet
    \/ AgentChatsCancel
    \/ AgentChatsSubscribe
    \/ AgentChatsDelta
    \/ AgentChatsComplete

AgentChatsSpec == AgentInit /\ [][AgentChatsNext]_vars

\* Listing: a peer that creates chats and pages through them, writing each
\* request when the one before has been answered.

ListLimits == { <<"1">>, <<"2">> }

AgentListInit ==
    /\ AgentInit
    /\ aconfig = [chunks |-> 1, emitToolCalls |-> FALSE, streaming |-> TRUE]

\* A chats/create arrives: for a new id, for an id used before, or for an
\* id the agent is to generate.
ListPeerCreates ==
    /\ Len(inbox) < MaxListRequests /\ taken = Len(inbox)
    /\ Cardinality({ i \in 1..Len(inbox) : inbox[i].type = "chats/create" }) < MaxCreates
    /\ \E id \in {Sid("c1"), Sid("c2"), NoSid} :
           inbox' = Append(inbox, ChatsCreateMsg(id, <<>>))
    /\ UNCHANGED <<aconfig, chats, chatOrder, chatCounter, taken, sessions,
                   sessionCounter, outbox, apc, turn>>
    /\ UNCHANGED <<codecVars, transportVars, clientVars, chatVars, hostVars>>

\* A chats/list arrives that starts a listing: without a cursor, with a
\* limit or without.
ListPeerLists ==
    /\ Len(inbox) < MaxListRequests /\ taken = Len(inbox)
    /\ \E limit \in ListLimits \cup { <<>> } :
           inbox' = Append(inbox, ChatsListMsg(<<>>, limit))
    /\ UNCHANGED <<aconfig, chats, chatOrder, chatCounter, taken, sessions,
                   sessionCounter, outbox, apc, turn>>
    /\ UNCHANGED <<codecVars, transportVars, clientVars, chatVars, hostVars>>

\* The peer has read a chats/listResult that carries a nextCursor and asks
\* for the page behind it.
ListPeerFollows ==
    /\ Len(inbox) < MaxListRequests
    /\ taken = Len(inbox)
    /\ outbox # <<>> /\ outbox[Len(outbox)].type = "chats/listResult"
    /\ outbox[Len(outbox)].cursor # <<>>
    /\ \E limit \in ListLimits :
           inbox' = Append(inbox, ChatsListMsg(outbox[Len(outbox)].cursor, limit))
    /\ UNCHANGED <<aconfig, chats, chatOrder, chatCounter, taken, sessions,
                   sessionCounter, outbox, apc, turn>>
    /\ UNCHANGED <<codecVars, transportVars, clientVars, chatVars, hostVars>>

AgentListNext ==
    \/ ListPeerCreates
    \/ ListPeerLists
    \/ ListPeerFollows
    \/ AgentReady
    \/ AgentChatsCreate
    \/ AgentChatsList

AgentListSpec == AgentListInit /\ [][AgentListNext]_vars

\* ------------------------------------------------------ agent chats claims

\* The chat id the j-th request, a chats/create, creates or names.
CreatedId(j) ==
    IF inbox[j].chatId # NoSid THEN inbox[j].chatId
    ELSE GenChatId(Cardinality({ i \in 1..j :
             inbox[i].type = "chats/create" /\ inbox[i].chatId = NoSid }))

\* The chat chatId exists when the agent handles the j-th request.
KnownAt(chatId, j) ==
    \E i \in 1..(j - 1) : inbox[i].type = "chats/create" /\ CreatedId(i) = chatId

\* A chats/cancel for the chat has been handled and acknowledged.
CancelAcked(chatId) ==
    \E j \in 1..taken : inbox[j] = ChatsCancelMsg(chatId) /\ KnownAt(chatId, j)

\* C12 as stated: while a chats/subscribe turn has a delta still to emit and
\* a chats/cancel for its chat has reached the agent, the next message the
\* agent writes is chat.cancelled, which ends the turn: no further
\* message.delta and no chat.completed.  (What the agent does next depends
\* on its state only, which is the same whenever the cancel arrived.)
C12_CancelDuringStream ==
    [][ (/\ apc = "subscribe" /\ turn.i < Len(turn.deltas)
         /\ \E j \in (taken + 1)..Len(inbox) : inbox[j] = ChatsCancelMsg(turn.sid)
         /\ outbox' # outbox)
            => /\ outbox' = Append(outbox, ChatEventMsg("chat.cancelled", turn.sid,
                                                       "cancelled"))
               /\ apc' = "idle" ]_vars

\* C13: a chats/subscribe handled after a chats/cancel of its chat was
\* acknowledged is answered by chat.cancelled alone: no chat.started, no
\* delta, no turn begun, the chat's turn counter unchanged.
C13_CancelShortCircuit ==
    [][ (/\ CanTake /\ NextRequest.type = "chats/subscribe"
         /\ taken' = taken + 1
         /\ CancelAcked(NextRequest.chatId))
            => LET chatId == NextRequest.chatId
               IN /\ outbox' = Append(outbox, ChatEventMsg("chat.cancelled", chatId,
                                                          "cancelled"))
                  /\ apc' = "idle"
                  /\ chats'[chatId].turns = chats[chatId].turns ]_vars

\* A subscribe after an acknowledged cancel has been answered.
C13_Witness ==
    /\ apc = "idle" /\ taken = 3
    /\ inbox[2] = ChatsCancelMsg(Sid("c1")) /\ inbox[3] = ChatsSubscribeMsg(Sid("c1"))
    /\ Len(outbox) = 4
    /\ outbox[3] = ChatsCancelResultMsg
    /\ outbox[4].type = "chat.cancelled"
    /\ chats[Sid("c1")].turns = 0

\* The positions among the first j requests of the chats/subscribe requests
\* that name a chat known when they are handled.
RECURSIVE TakenSubscribes(_)
TakenSubscribes(j) ==
    IF j = 0 THEN <<>>
    ELSE IF inbox[j].type = "chats/subscribe" /\ KnownAt(inbox[j].chatId, j)
    THEN Append(TakenSubscribes(j - 1), j)
    ELSE TakenSubscribes(j - 1)

IsTerminalEvent(msg) == msg.type \in {"chat.completed", "chat.cancelled"}

IsTurnEvent(msg) == msg.type \in {"chat.started", "message.delta"}

\* The positions in outbox of the terminal events.
RECURSIVE TerminalsUpTo(_)
TerminalsUpTo(q) ==
    IF q = 0 THEN <<>>
    ELSE IF IsTerminalEvent(outbox[q]) THEN Append(TerminalsUpTo(q - 1), q)
    ELSE TerminalsUpTo(q - 1)

\* The first position of the run of chat.started and message.delta events
\* that ends just before position q.
RECURSIVE EventRunStart(_)
EventRunStart(q) == IF q > 1 /\ IsTurnEvent(outbox[q - 1]) THEN EventRunStart(q - 1) ELSE q

\* body is empty or one subscription's events for the chat: chat.started,
\* then deltas with indices 0, 1, ...
IsSubscriptionPrefix(body, chatId) ==
    body # <<>> =>
        /\ body[1].type = "chat.started"
        /\ \A b \in 1..Len(body) : body[b].chatId = chatId
        /\ \A b \in 2..Len(body) : body[b].type = "message.delta" /\ body[b].index = b - 2

\* C14: the terminal events answer the handled chats/subscribe requests on
\* known chats one for one and in order, so each subscription has exactly
\* one of chat.completed and chat.cancelled; it closes the subscription:
\* the chat.started and deltas directly before it are that subscription's,
\* chat.completed never comes without them, and every other chat.started or
\* delta belongs to the subscription still in progress.
C14_OneTerminalEvent ==
    LET subs == TakenSubscribes(taken)
        terminals == TerminalsUpTo(Len(outbox))
        answered == IF apc = "subscribe" THEN Len(subs) - 1 ELSE Len(subs)
        tailStart == EventRunStart(Len(outbox) + 1)
        tail == SubSeq(outbox, tailStart, Len(outbox))
    IN /\ Len(terminals) = answered
       /\ \A c \in 1..Len(terminals) :
              LET q == terminals[c]
                  body == SubSeq(outbox, EventRunStart(q), q - 1)
              IN /\ outbox[q].chatId = inbox[subs[c]].chatId
                 /\ IsSubscriptionPrefix(body, outbox[q].chatId)
                 /\ outbox[q].type = "chat.completed" => Len(body) >= 2
       /\ \A p \in 1..Len(outbox) :
              IsTurnEvent(outbox[p]) /\ p < tailStart =>
                  \E c \in 1..Len(terminals) :
                      EventRunStart(terminals[c]) <= p /\ p < terminals[c]
       /\ IF apc = "subscribe"
          THEN tail # <<>> /\ IsSubscriptionPrefix(tail, turn.sid)
          ELSE tail = <<>>

\* A subscription has ended with chat.completed after chat.started and two
\* deltas.
C14_Witness ==
    /\ apc = "idle"
    /\ \E q \in 4..Len(outbox) :
           /\ outbox[q].type = "chat.completed"
           /\ outbox[q - 1].type = "message.delta" /\ outbox[q - 1].index = 1
           /\ outbox[q - 3].type = "chat.started"

\* The messages that answer a request: one per handled request once the
\* agent is idle again.
IsReply(msg) ==
    msg.type \in {"chats/created", "chats/getResult", "chats/cancelResult", "chats/error",
                  "chat.cancelled", "chat.completed"}

\* C25: an unknown chat id is answered, not fatal.  The step that handles a
\* chats/get, chats/cancel or chats/subscribe naming a chat the agent does
\* not hold writes one chats/error carrying that id and nothing else, leaves
\* the chats, their order and the id counter as they were, and leaves the
\* agent running and idle; whenever the agent is idle every handled request
\* has its answer, and a request that has arrived can be handled.
C25_UnknownChatAnswered ==
    [][ /\ ( /\ taken' = taken + 1
             /\ NextRequest.type \in {"chats/get", "chats/cancel", "chats/subscribe"}
             /\ NextRequest.chatId \notin DOMAIN chats )
            => /\ outbox' = Append(outbox, ChatsErrorMsg(NextRequest.chatId))
               /\ UNCHANGED <<chats, chatOrder, chatCounter>>
               /\ apc' = "idle" /\ turn' = NoTurn
        /\ apc' = "idle"
            => Cardinality({ i \in 1..Len(outbox') : IsReply(outbox'[i]) }) = taken'
        /\ (apc = "idle" /\ taken < Len(inbox))
            => ENABLED (AgentChatsCreate \/ AgentChatsGet \/ AgentChatsCancel
                                    \/ AgentChatsSubscribe) ]_vars

\* A chats/get of an unknown chat was answered with chats/error; the
\* chats/create and the chats/get that followed were answered normally.
C25_Witness ==
    /\ taken = 3 /\ Len(outbox) = 4
    /\ outbox[2] = ChatsErrorMsg(Sid("c1"))
    /\ outbox[3].type = "chats/created"
    /\ outbox[4] = ChatsGetResultMsg(Sid("c1"), "created")

\* The ids of the chats created by the first j requests, in creation order:
\* a chats/create for an id created before adds nothing.
RECURSIVE CreatedUpTo(_)
CreatedUpTo(j) ==
    IF j = 0 THEN <<>>
    ELSE LET before == CreatedUpTo(j - 1)
         IN IF inbox[j].type = "chats/create"
                 /\ \A i \in 1..Len(before) : before[i] # CreatedId(j)
            THEN Append(before, CreatedId(j))
            ELSE before

\* The reply to the j-th request of the listing peer: ready is the first
\* message and every chats/create and chats/list has one reply.
ReplyTo(j) == outbox[j + 1]

\* The latest chats/list before the j-th request, 0 when there is none.
PrevList(j) ==
    IF \E k \in 1..(j - 1) : inbox[k].type = "chats/list"
    THEN CHOOSE k \in 1..(j - 1) :
             /\ inbox[k].type = "chats/list"
             /\ \A m \in (k + 1)..(j - 1) : inbox[m].type # "chats/list"
    ELSE 0

\* The j-th request is a chats/list that starts a listing (no cursor) or
\* follows the nextCursor of the page before it.
RECURSIVE IsListing(_)
IsListing(j) ==
    /\ inbox[j].type = "chats/list"
    /\ \/ inbox[j].cursor = <<>>
       \/ /\ PrevList(j) > 0
          /\ inbox[j].cursor = ReplyTo(PrevList(j)).cursor
          /\ IsListing(PrevList(j))

\* The pages of the listing that the j-th request continues, joined.
RECURSIVE ListedUpTo(_)
ListedUpTo(j) ==
    IF inbox[j].cursor = <<>> THEN ReplyTo(j).chats
    ELSE ListedUpTo(PrevList(j)) \o ReplyTo(j).chats

\* The page and the cursor the claim gives for offset o and limit l.
PageOf(all, o, l) ==
    [chats |-> [i \in 1..(IF o + l < Len(all) THEN l
                          ELSE IF o < Len(all) THEN Len(all) - o ELSE 0) |-> all[o + i]],
     cursor |-> IF o + l < Len(all) THEN DecStr(o + l) ELSE <<>>]

\* Every handled listing that has reached a page without nextCursor has
\* listed each chat created before that page once, in creation order.
ListingsEnumerate ==
    /\ chatOrder = CreatedUpTo(taken)
    /\ \A j \in 1..taken :
           (IsListing(j) /\ ReplyTo(j).cursor = <<>>) => ListedUpTo(j) = CreatedUpTo(j)

RECURSIVE GeneratedUpTo(_)
GeneratedUpTo(j) ==
    IF j = 0 THEN 0
    ELSE GeneratedUpTo(j - 1)
           + (IF inbox[j].type \in {"session/start", "session/send"}
                 /\ inbox[j].sessionId = NoSid THEN 1 ELSE 0)

\* The session the j-th request addresses.
ResolvedSid(j) ==
    IF inbox[j].sessionId = NoSid THEN GenSid(GeneratedUpTo(j)) ELSE inbox[j].sessionId

\* The positions in inbox of the session/send requests the agent has taken.
RECURSIVE TakenSends(_)
TakenSends(j) ==
    IF j = 0 THEN <<>>
    ELSE IF inbox[j].type = "session/send" THEN Append(TakenSends(j - 1), j)
    ELSE TakenSends(j - 1)

\* The positions in outbox of the session/complete messages.
RECURSIVE CompletesUpTo(_)
CompletesUpTo(q) ==
    IF q = 0 THEN <<>>
    ELSE IF outbox[q].type = "session/complete" THEN Append(CompletesUpTo(q - 1), q)
    ELSE CompletesUpTo(q - 1)

IsTurnBody(msg) == msg.type \in {"session/stream", "tool/call"}

\* The first position of the run of stream and tool messages that ends
\* just before position q.
RECURSIVE RunStart(_)
RunStart(q) == IF q > 1 /\ IsTurnBody(outbox[q - 1]) THEN RunStart(q - 1) ELSE q

\* The messages body are one turn's for session sid: an optional tool/call
\* first, then stream messages with indices 0, 1, ...
IsTurnPrefix(body, sid) ==
    LET streams == SelectSeq(body, LAMBDA m : m.type = "session/stream")
    IN /\ \A b \in 1..Len(body) : body[b].sessionId = sid
       /\ \A b \in 2..Len(body) : body[b].type = "session/stream"
       /\ \A i \in 1..Len(streams) : streams[i].index = i - 1

\* C5: every session/send the agent has handled is answered by exactly one
\* session/complete for its session, in request order, and that message
\* closes the turn: the stream and tool messages directly before it are
\* that turn's, whole and in order, and every other stream or tool message
\* belongs to the turn still in progress.
C5_ExactlyOneCompleteLast ==
    LET sends == TakenSends(taken)
        completes == CompletesUpTo(Len(outbox))
        answered == IF apc = "turn" THEN Len(sends) - 1 ELSE Len(sends)
        tailStart == RunStart(Len(outbox) + 1)
        tail == SubSeq(outbox, tailStart, Len(outbox))
    IN /\ Len(completes) = answered
       /\ \A c \in 1..Len(completes) :
              LET q == completes[c]
                  body == SubSeq(outbox, RunStart(q), q - 1)
                  streams == SelectSeq(body, LAMBDA m : m.type = "session/stream")
              IN /\ outbox[q].sessionId = ResolvedSid(sends[c])
                 /\ IsTurnPrefix(body, outbox[q].sessionId)
                 /\ aconfig.streaming =>
                        Flatten([i \in 1..Len(streams) |-> streams[i].delta])
                            = outbox[q].content
                 /\ ~aconfig.streaming => body = <<>>
       /\ \A p \in 1..Len(outbox) :
              IsTurnBody(outbox[p]) /\ p < tailStart =>
                  \E c \in 1..Len(completes) :
                      RunStart(completes[c]) <= p /\ p < completes[c]
       /\ IF apc = "turn" THEN IsTurnPrefix(tail, turn.sid) ELSE tail = <<>>

\* Two turns have been closed, the first with a tool call and two deltas
\* before its session/complete.
C5_Witness ==
    /\ apc = "idle"
    /\ Len(CompletesUpTo(Len(outbox))) = 2
    /\ \E q \in 4..Len(outbox) :
           /\ outbox[q].type = "session/complete"
           /\ outbox[q - 1].type = "session/stream" /\ outbox[q - 1].index = 1
           /\ outbox[q - 2].type = "session/stream"
           /\ outbox[q - 3].type = "tool/call"

\* The contents of the taken session/send requests addressed to sid.
UserContents(sid) ==
    LET sends == TakenSends(taken)
        mine == SelectSeq(sends, LAMBDA j : ResolvedSid(j) = sid)
    IN [k \in 1..Len(mine) |-> inbox[mine[k]].content]

\* history holds n turns of the session whose user contents are users.
IsHistoryOf(history, users, n) ==
    /\ Len(history) = 2 * n
    /\ n <= Len(users)
    /\ \A k \in 0..(n - 1) :
           /\ history[2 * k + 1] = ChatMessage("user", users[k + 1])
           /\ history[2 * k + 2]
                  = ChatMessage("assistant", AssistantContent(k + 1, users[k + 1]))

\* C8: the history carried by the N-th session/complete of a session has
\* 2N entries, entry 2k the k-th user content and entry 2k+1 the assistant
\* reply of that turn, so each history extends the one before it; and
\* whenever the agent is idle every session's stored history has that shape
\* for the turns it has completed.
C8_HistoryAccumulation ==
    LET completes == CompletesUpTo(Len(outbox))
    IN /\ \A c \in 1..Len(completes) :
              LET msg == outbox[completes[c]]
                  n == Cardinality({ d \in 1..c :
                           outbox[completes[d]].sessionId = msg.sessionId })
              IN /\ IsHistoryOf(msg.history, UserContents(msg.sessionId), n)
                 /\ msg.history[2 * n].content = msg.content
       /\ apc = "idle" =>
              \A sid \in DOMAIN sessions :
                  /\ sessions[sid].turns = Len(UserContents(sid))
                  /\ IsHistoryOf(sessions[sid].history, UserContents(sid),
                                 sessions[sid].turns)

\* A session's second turn has completed, after two different user contents.
C8_Witness ==
    /\ apc = "idle"
    /\ \E q \in 1..Len(outbox) :
           /\ outbox[q].type = "session/complete"
           /\ Len(outbox[q].history) = 4
           /\ outbox[q].history[1].content # outbox[q].history[3].content

\* The session/stream messages written directly before outbox[e].
RECURSIVE StreamsBefore(_)
StreamsBefore(e) ==
    IF e > 1 /\ outbox[e - 1].type = "session/stream"
    THEN Append(StreamsBefore(e - 1), outbox[e - 1])
    ELSE <<>>

\* chunkString cuts a reply into at least one and at most parts chunks that
\* join to the reply, for every number of parts up to MaxParts, those that
\* leave fewer chunks than parts among them.
ChunksPartitionReply ==
    \A parts \in 1..MaxParts, c \in Contents :
        LET text == AssistantContent(1, c)
            deltas == chunkString(text, parts)
        IN /\ Len(deltas) \in 1..parts
           /\ Flatten(deltas) = text

\* C26: the deltas of a turn.  With streaming on, the session/complete of
\* the k-th turn of a session, for content c and p chunks, stands directly
\* behind n session/stream messages of that session, 1 <= n <= p, whose
\* indices are 0, 1, .., n-1 in the order written and whose deltas, joined in
\* that order, are "MockAgent response #k: c", the content of the
\* session/complete message.
C26_DeltasOfTurn ==
    /\ ChunksPartitionReply
    /\ \A e \in 1..Len(outbox) :
        (outbox[e].type = "session/complete" /\ aconfig.streaming)
        => LET complete == outbox[e]
               k == Len(complete.history) \div 2
               c == complete.history[Len(complete.history) - 1].content
               streams == StreamsBefore(e)
               n == Len(streams)
           IN /\ 1 <= n /\ n <= aconfig.chunks
              /\ \A i \in 1..n : /\ streams[i].index = i - 1
                                 /\ streams[i].sessionId = complete.sessionId
              /\ Flatten([i \in 1..n |-> streams[i].delta]) = AssistantContent(k, c)
              /\ complete.content = AssistantContent(k, c)
              /\ complete.history[Len(complete.history)].content = complete.content

\* The second turn of a session was streamed in three deltas of unequal
\* length.
C26_Witness ==
    /\ aconfig.streaming /\ aconfig.chunks = 3
    /\ Len(outbox) >= 4
    /\ outbox[Len(outbox)].type = "session/complete"
    /\ Len(outbox[Len(outbox)].history) = 4
    /\ Len(StreamsBefore(Len(outbox))) = 3
    /\ Len(outbox[Len(outbox) - 1].delta) < Len(outbox[Len(outbox) - 2].delta)

\* The turn number of the session/send at position j of inbox: how many
\* session/send requests up to j address its session.
TurnNumberOf(j) ==
    Cardinality({ i \in 1..j : inbox[i].type = "session/send"
                                 /\ ResolvedSid(i) = ResolvedSid(j) })

\* The k-th session/complete written answers the k-th session/send that
\* arrived, with the turn number of that request.
CompletesInArrivalOrder ==
    LET sends == TakenSends(taken)
        completes == CompletesUpTo(Len(outbox))
    IN \A c \in 1..Len(completes) :
           /\ c <= Len(sends)
           /\ outbox[completes[c]].sessionId = ResolvedSid(sends[c])
           /\ outbox[completes[c]].content
                  = AssistantContent(TurnNumberOf(sends[c]), inbox[sends[c]].content)

\* C31: requests are handled one at a time in arrival order.  While a turn
\* is in progress no request is taken, however many are waiting, and every
\* message written is that turn's stream or complete message; the request
\* taken next is the oldest one waiting; a session/send that is taken puts
\* its user entry at the end of its session's history with the turn number
\* of its arrival position, and the k-th session/complete written answers
\* the k-th session/send that arrived, with that turn number.
C31_OneRequestAtATime ==
    [][ /\ apc = "turn"
           => /\ taken' = taken
              /\ outbox' # outbox
                   => /\ Len(outbox') = Len(outbox) + 1
                      /\ outbox'[Len(outbox')].type \in {"session/stream", "session/complete"}
                      /\ outbox'[Len(outbox')].sessionId = ResolvedSid(taken)
        /\ taken' # taken
           => /\ taken' = taken + 1
              /\ inbox[taken'].type = "session/send"
                   => LET session == sessions'[ResolvedSid(taken')]
                      IN /\ session.turns = TurnNumberOf(taken')
                         /\ session.history[Len(session.history)]
                                = ChatMessage("user", inbox[taken'].content)
                         /\ Len(session.history) = 2 * TurnNumberOf(taken') - 1
        /\ CompletesInArrivalOrder'
      ]_vars

\* A second session/send for the session of the turn in progress is waiting
\* while that turn has written a delta and not yet its session/complete.
C31_Witness ==
    /\ apc = "turn" /\ turn.i >= 1
    /\ taken < Len(inbox)
    /\ inbox[taken + 1].type = "session/send"
    /\ ResolvedSid(taken + 1) = turn.sid
    /\ outbox[Len(outbox)].type = "session/stream"


\* A decoded value that is no object (null, a number, a string).
NonObjectMsg == [BlankMsg EXCEPT !.type = "#non-object"]

IsObject(msg) == msg.type # "#non-object"

\* Mutant of MapSet: a delta whose index is already buffered is dropped and
\* the earlier delta is kept.
MapSet_keepsFirst(entries, idx, delta) ==
    IF \E e \in 1..Len(entries) : entries[e].idx = idx
    THEN entries
    ELSE Append(entries, [idx |-> idx, delta |-> delta])

\* Map.prototype.set on the entries of a Map, kept in insertion order.
MapSet(entries, idx, delta) ==
    IF \E e \in 1..Len(entries) : entries[e].idx = idx
    THEN [e \in 1..Len(entries) |->
              IF entries[e].idx = idx THEN [idx |-> idx, delta |-> delta] ELSE entries[e]]
    ELSE Append(entries, [idx |-> idx, delta |-> delta])

\* Array.prototype.sort with (a, b) => a[0] - b[0]: e placed into the sorted
\* list sorted, behind the entries that do not compare greater.
RECURSIVE InsertByIndex(_, _)
InsertByIndex(sorted, e) ==
    IF sorted = <<>> THEN <<e>>
    ELSE IF Head(sorted).idx - e.idx > 0 THEN <<e>> \o sorted
    ELSE <<Head(sorted)>> \o InsertByIndex(Tail(sorted), e)

\* Mutant of SortByIndex: the entries are left in insertion order.
SortByIndex_insertionOrder(entries) == entries

RECURSIVE SortByIndex(_)
SortByIndex(entries) ==
    IF entries = <<>> THEN <<>>
    ELSE InsertByIndex(SortByIndex(SubSeq(entries, 1, Len(entries) - 1)),
                       entries[Len(entries)])

\* [...deltasByIndex.entries()].sort(...).map(([, d]) => d).join("")
Combined(entries) ==
    LET ordered == SortByIndex(entries)
    IN Flatten([e \in 1..Len(ordered) |-> ordered[e].delta])

\* Mutant of sendLoopBody: a tool/call of the awaited session ends the turn.
sendLoopBody_toolCallEnds(entries, sid, msg) ==
    IF ~IsObject(msg) THEN [entries |-> entries, does |-> "continue"]
    ELSE IF msg.type = "session/stream" /\ msg.sessionId = sid
    THEN [entries |-> MapSet(entries,
                             IF msg.index >= 0 THEN msg.index ELSE Len(entries),
                             msg.delta),
          does |-> "delta"]
    ELSE IF msg.type \in {"session/complete", "tool/call"} /\ msg.sessionId = sid
    THEN [entries |-> entries, does |-> "return"]
    ELSE [entries |-> entries, does |-> "continue"]

\* One pass of the body of sendAndWaitComplete's loop over a pulled message:
\* the Map afterwards and what the loop does next.
sendLoopBody(entries, sid, msg) ==
    IF ~IsObject(msg) THEN [entries |-> entries, does |-> "continue"]
    ELSE IF msg.type = "session/stream" /\ msg.sessionId = sid
    THEN [entries |-> MapSet(entries,
                             IF msg.index >= 0 THEN msg.index ELSE Len(entries),
                             msg.delta),
          does |-> "delta"]
    ELSE IF msg.type = "session/complete" /\ msg.sessionId = sid
    THEN [entries |-> entries, does |-> "return"]
    ELSE [entries |-> entries, does |-> "continue"]

\* Mutant of waitLoopBody: any object ends the wait, whatever its type.
waitLoopBody_anyObject(type, msg) == IsObject(msg)

\* The test of waitForType's loop body.
waitLoopBody(type, msg) == IsObject(msg) /\ msg.type = type

\* sendAndWaitComplete run to its return over the messages msgs, the Map
\* being entries: [returned, combined, msg].
RECURSIVE CollectFrom(_, _, _)
CollectFrom(entries, sid, msgs) ==
    IF msgs = <<>> THEN [returned |-> FALSE, combined |-> <<>>, msg |-> BlankMsg]
    ELSE LET r == sendLoopBody(entries, sid, Head(msgs))
         IN IF r.does = "return"
            THEN [returned |-> TRUE, combined |-> Combined(r.entries), msg |-> Head(msgs)]
            ELSE CollectFrom(r.entries, sid, Tail(msgs))

Collect(sid, msgs) == CollectFrom(<<>>, sid, msgs)

\* waitForType(iter, type) is called: the first nextMessage arms its timer.
CallWaitForType(type) ==
    /\ cpc \in {"idle", "returned"}
    /\ cop' = "waitForType" /\ cwant' = type /\ csid' = NoSid
    /\ cpc' = "waiting" /\ cerr' = "none"
    /\ deltasByIndex' = <<>> /\ cresult' = NoResult
    /\ timer' = "armed"
    /\ forwarded' = <<>>
    /\ UNCHANGED uncaught

\* sendAndWaitComplete(params) is called: transport.send throws when the
\* transport is closed, else session/send is written and the loop starts.
CallSendAndWaitComplete(sid, content) ==
    /\ cpc \in {"idle", "returned"}
    /\ cop' = "sendAndWaitComplete" /\ cwant' = "" /\ csid' = sid
    /\ deltasByIndex' = <<>> /\ cresult' = NoResult
    /\ IF ended
       THEN /\ cpc' = "rejected" /\ cerr' = "closed" /\ timer' = "off"
            /\ UNCHANGED inbox
       ELSE /\ cpc' = "waiting" /\ cerr' = "none" /\ timer' = "armed"
            /\ inbox' = Append(inbox, SessionSendMsg(sid, content))
    /\ forwarded' = <<>>
    /\ UNCHANGED uncaught

\* iter.next() resolves with a message: nextMessage clears its timer and
\* returns it, and the loop of the call in progress handles it.
ClientRecv ==
    /\ cpc = "waiting"
    /\ rd < Len(outbox)
    /\ rd' = rd + 1
    /\ LET msg == outbox[rd + 1]
           r == sendLoopBody(deltasByIndex, csid, msg)
       IN IF cop = "waitForType"
          THEN /\ IF waitLoopBody(cwant, msg)
                  THEN /\ cpc' = "returned" /\ timer' = "off"
                       /\ cresult' = [msg |-> msg, combined |-> <<>>]
                  ELSE /\ cpc' = "waiting" /\ timer' = "armed"
                       /\ UNCHANGED cresult
               /\ UNCHANGED <<deltasByIndex, forwarded>>
          ELSE /\ deltasByIndex' = r.entries
               /\ forwarded' = IF r.does = "delta"
                               THEN Append(forwarded, msg.delta) ELSE forwarded
               /\ IF r.does = "return"
                  THEN /\ cpc' = "returned" /\ timer' = "off"
                       /\ cresult' = [msg |-> msg, combined |-> Combined(r.entries)]
                  ELSE /\ cpc' = "waiting" /\ timer' = "armed"
                       /\ UNCHANGED cresult
    /\ UNCHANGED <<cop, cwant, csid, cerr, uncaught>>
    /\ UNCHANGED <<codecVars, transportVars, agentVars, chatVars, hostVars>>

\* Mutant of ClientEndOfStream: on done the call in progress returns what
\* it has collected instead of throwing.
ClientEndOfStream_returns ==
    /\ cpc = "waiting"
    /\ rd = Len(outbox) /\ ended
    /\ cpc' = "returned" /\ timer' = "off"
    /\ cresult' = [msg |-> BlankMsg, combined |-> Combined(deltasByIndex)]
    /\ UNCHANGED <<cop, cwant, csid, cerr, deltasByIndex, forwarded, rd, uncaught>>
    /\ UNCHANGED <<codecVars, transportVars, agentVars, chatVars, hostVars>>

\* iter.next() resolves with done: nextMessage throws "Unexpected end of
\* stream", which rejects the call in progress.
ClientEndOfStream ==
    /\ cpc = "waiting"
    /\ rd = Len(outbox) /\ ended
    /\ cpc' = "rejected" /\ cerr' = "end" /\ timer' = "off"
    /\ UNCHANGED <<cop, cwant, csid, deltasByIndex, forwarded, cresult, rd, uncaught>>
    /\ UNCHANGED <<codecVars, transportVars, agentVars, chatVars, hostVars>>

\* timeoutMs pass with no message: the setTimeout callback of nextMessage
\* runs and throws.  The throw happens in the timer callback, not in the
\* async function, so iter.next() is still awaited and no promise is rejected.
ClientTimeout ==
    /\ cpc = "waiting" /\ timer = "armed"
    /\ rd = Len(outbox) /\ ~ended
    /\ timer' = "fired"
    /\ uncaught' = TRUE
    /\ UNCHANGED <<cop, cwant, csid, cpc, cerr, deltasByIndex, forwarded, cresult, rd>>
    /\ UNCHANGED <<codecVars, transportVars, agentVars, chatVars, hostVars>>

\* The driver's calls against a peer that writes what it likes.

\* Messages the peer writes: deltas of session "s1" with indices 0..2, a
\* repeated index, a missing index, another session's messages, and
\* messages of other types.
PeerMessages ==
    { SessionStreamMsg(Sid("s1"), 0, <<"a">>), SessionStreamMsg(Sid("s1"), 1, <<"b">>),
      SessionStreamMsg(Sid("s1"), 2, <<"c">>), SessionStreamMsg(Sid("s1"), 0, <<"d">>),
      SessionStreamMsg(Sid("s1"), -1, <<"e">>), SessionStreamMsg(Sid("s2"), 0, <<"x">>),
      SessionCompleteMsg(Sid("s1"), <<"r">>, <<>>),
      SessionCompleteMsg(Sid("s2"), <<"x">>, <<>>),
      ToolCallMsg(Sid("s1"), 1, 1), NonObjectMsg, ReadyMsg }

ClientInit ==
    /\ frames = <<>> /\ wire = <<>> /\ pos = 0
    /\ buffer = <<>> /\ offset = 0 /\ lastOut = <<>> /\ derr = "none"
    /\ queue = <<>> /\ waiters = <<>> /\ ended = FALSE /\ pulls = <<>>
    /\ attached = TRUE /\ sendCalls = <<>> /\ written = <<>> /\ needDrain = FALSE
    /\ AgentAbsent
    /\ ClientAbsent
    /\ ChatAbsent
    /\ HostAbsent

DriverWaitForType ==
    /\ cpc = "idle"
    /\ \E type \in {"ready", "session/complete"} : CallWaitForType(type)
    /\ UNCHANGED rd
    /\ UNCHANGED <<codecVars, transportVars, agentVars, chatVars, hostVars>>

DriverSendAndWaitComplete ==
    /\ cpc = "idle"
    /\ CallSendAndWaitComplete(Sid("s1"), <<"a">>)
    /\ UNCHANGED rd
    /\ UNCHANGED <<codecVars, transportVars, chatVars, hostVars>>
    /\ UNCHANGED <<aconfig, chats, chatOrder, chatCounter, taken, sessions, sessionCounter, outbox, apc, turn>>

\* The transport yields one more decoded message to the waiting call.
PeerWrites ==
    /\ ~ended
    /\ cpc = "waiting" /\ rd = Len(outbox)
    /\ Len(outbox) < MaxMessages
    /\ \E msg \in PeerMessages : outbox' = Append(outbox, msg)
    /\ UNCHANGED <<aconfig, chats, chatOrder, chatCounter, inbox, taken, sessions, sessionCounter, apc, turn>>
    /\ UNCHANGED <<codecVars, transportVars, clientVars, chatVars, hostVars>>

\* The peer's stream ends and the transport closes.
PeerEnds ==
    /\ ~ended
    /\ ended' = TRUE /\ attached' = FALSE
    /\ UNCHANGED <<queue, waiters, pulls, sendCalls, written, needDrain>>
    /\ UNCHANGED <<codecVars, agentVars, clientVars, chatVars, hostVars>>

ClientNext ==
    \/ DriverWaitForType
    \/ DriverSendAndWaitComplete
    \/ PeerWrites
    \/ PeerEnds
    \/ ClientRecv
    \/ ClientEndOfStream
    \/ ClientTimeout

ClientSpec == ClientInit /\ [][ClientNext]_vars

\* The driver's next call on the same iterator, once a call has returned:
\* another waitForType, as the flows do after "ready".
DriverWaitAgain ==
    /\ cpc = "returned"
    /\ \E type \in {"ready", "session/complete"} : CallWaitForType(type)
    /\ UNCHANGED rd
    /\ UNCHANGED <<codecVars, transportVars, agentVars, chatVars, hostVars>>

ClientSeqNext ==
    \/ DriverWaitForType
    \/ DriverSendAndWaitComplete
    \/ DriverWaitAgain
    \/ PeerWrites
    \/ PeerEnds
    \/ ClientRecv
    \/ ClientEndOfStream
    \/ ClientTimeout

ClientSeqSpec == ClientInit /\ [][ClientSeqNext]_vars

\* ----------------------------------------------------------- client claims

\* The session/stream messages for the awaited session among the messages
\* the returned call has consumed.
ConsumedStreams ==
    SelectSeq(SubSeq(outbox, 1, rd),
              LAMBDA m : m.type = "session/stream" /\ m.sessionId = csid)

\* The indices of the consumed deltas are distinct and are exactly 0..N-1.
IsPermutationOfIndices(streams) ==
    /\ \A i \in 1..Len(streams) : streams[i].index \in 0..(Len(streams) - 1)
    /\ \A i, j \in 1..Len(streams) : streams[i].index = streams[j].index => i = j

\* C6: when the deltas consumed before the matching session/complete carry
\* distinct indices 0..N-1, in whatever order they arrived and whatever
\* other messages arrived between them, sendAndWaitComplete returns that
\* session/complete and the deltas concatenated in ascending index order.
C6_IndexReordering ==
    (cop = "sendAndWaitComplete" /\ cpc = "returned"
        /\ IsPermutationOfIndices(ConsumedStreams))
    => LET streams == ConsumedStreams
           deltaAt(i) == streams[CHOOSE k \in 1..Len(streams) : streams[k].index = i].delta
       IN /\ cresult.combined = Flatten([i \in 1..Len(streams) |-> deltaAt(i - 1)])
          /\ cresult.msg = outbox[rd]
          /\ cresult.msg.type = "session/complete" /\ cresult.msg.sessionId = csid

\* The call has returned "ab" after delta 1 arrived before delta 0.
C6_Witness ==
    /\ cop = "sendAndWaitComplete" /\ cpc = "returned"
    /\ Len(ConsumedStreams) = 2
    /\ ConsumedStreams[1].index = 1 /\ ConsumedStreams[2].index = 0
    /\ cresult.combined = <<"a", "b">>

\* The key each consumed delta is stored under: its index when it carries a
\* numeric one, otherwise the number of distinct keys stored before it.
RECURSIVE StreamKeys(_)
StreamKeys(streams) ==
    IF streams = <<>> THEN <<>>
    ELSE LET prev == StreamKeys(SubSeq(streams, 1, Len(streams) - 1))
             last == streams[Len(streams)]
         IN Append(prev, IF last.index >= 0 THEN last.index
                         ELSE Cardinality({prev[i] : i \in 1..Len(prev)}))

\* The delta of the last consumed stream message stored under key k.
LastDeltaOf(streams, k) ==
    LET keys == StreamKeys(streams)
        at == CHOOSE i \in 1..Len(streams) :
                  /\ keys[i] = k
                  /\ \A j \in 1..Len(streams) : keys[j] = k => j <= i
    IN streams[at].delta

\* The last delta of every distinct key, joined in ascending key order.
LastPerIndexJoined(streams) ==
    LET keys == StreamKeys(streams)
        used == {keys[i] : i \in 1..Len(keys)}
    IN Flatten([n \in 1..(Len(streams) + MaxMessages) |->
                    IF (n - 1) \in used THEN LastDeltaOf(streams, n - 1) ELSE <<>>])

\* C38: in sendAndWaitComplete every consumed delta is forwarded to onDelta,
\* the buffer holds one entry per distinct index, namely the last delta
\* received with that index (a delta without a numeric index is stored under
\* the number of buffered entries), and the combined text is the join of
\* those entries in ascending index order.
C38_LastDeltaPerIndex ==
    cop = "sendAndWaitComplete" =>
        LET streams == ConsumedStreams
            keys == StreamKeys(streams)
            used == {keys[i] : i \in 1..Len(keys)}
        IN /\ forwarded = [i \in 1..Len(streams) |-> streams[i].delta]
           /\ Len(deltasByIndex) = Cardinality(used)
           /\ {<<deltasByIndex[e].idx, deltasByIndex[e].delta>> : e \in 1..Len(deltasByIndex)}
                  = {<<k, LastDeltaOf(streams, k)>> : k \in used}
           /\ cpc = "returned" => cresult.combined = LastPerIndexJoined(streams)

\* Two deltas with index 0 were consumed and forwarded; the call returned
\* the text of the second only.
C38_Witness ==
    /\ cop = "sendAndWaitComplete" /\ cpc = "returned"
    /\ Len(ConsumedStreams) = 2
    /\ ConsumedStreams[1].index = 0 /\ ConsumedStreams[2].index = 0
    /\ ConsumedStreams[1].delta # ConsumedStreams[2].delta
    /\ Len(forwarded) = 2
    /\ cresult.combined = ConsumedStreams[2].delta

\* C10 as stated: when the timeout of a pending nextMessage elapses, the
\* wait is rejected to its caller with the timeout error and no exception
\* is raised anywhere else.
C10_TimeoutRejectsCaller ==
    [][(timer = "armed" /\ timer' = "fired")
          => (cpc' = "rejected" /\ cerr' = "timeout" /\ ~uncaught')]_vars

\* C11: when the iterator signals done while a call is waiting, the call
\* is rejected with "Unexpected end of stream" for what it was awaiting; it
\* returns no result, and once rejected it pulls nothing more and sends
\* nothing again.
C11_EndOfStreamAborts ==
    [][ /\ (cpc = "waiting" /\ ended /\ rd = Len(outbox))
            => /\ cpc' = "rejected" /\ cerr' = "end"
               /\ cresult' = NoResult
               /\ UNCHANGED <<cop, cwant, csid, rd, inbox>>
        /\ (cpc = "rejected" /\ cerr = "end")
            => /\ cpc' = "rejected" /\ cerr' = "end"
               /\ UNCHANGED <<cresult, rd, inbox>> ]_vars

\* sendAndWaitComplete was rejected by the end of the stream after it had
\* received a delta and no session/complete.
C11_Witness ==
    /\ cop = "sendAndWaitComplete"
    /\ cpc = "rejected" /\ cerr = "end"
    /\ deltasByIndex # <<>>
    /\ rd = Len(outbox)

\* C22: waitForType returns the first match.  Each message is pulled once,
\* in arrival order; a pulled message whose type is not the awaited one (or
\* that is no object) leaves the wait pending with nothing returned, and the
\* first one whose type is the awaited one is what the call returns.  The
\* read position never moves back, so a discarded message is not delivered
\* to a later call on the transport.
C22_WaitForTypeFirstMatch ==
    [][ /\ rd' \in {rd, rd + 1}
        /\ (cop = "waitForType" /\ cpc = "waiting" /\ rd' = rd + 1)
             => LET msg == outbox[rd + 1]
                IN IF IsObject(msg) /\ msg.type = cwant
                   THEN cpc' = "returned" /\ cresult'.msg = msg
                   ELSE cpc' = "waiting" /\ cresult' = NoResult
        /\ (cop' = "waitForType" /\ cpc' = "returned" /\ cpc # "returned")
             => (rd' = rd + 1 /\ cresult'.msg = outbox[rd + 1]) ]_vars

\* A wait for "ready" discarded a session/complete and returned; the later
\* wait for "session/complete" did not get the discarded one but the next.
C22_Witness ==
    /\ cop = "waitForType" /\ cwant = "session/complete" /\ cpc = "returned"
    /\ rd = 3
    /\ outbox[1] = SessionCompleteMsg(Sid("s1"), <<"r">>, <<>>)
    /\ outbox[2] = ReadyMsg
    /\ outbox[3] = SessionCompleteMsg(Sid("s2"), <<"x">>, <<>>)
    /\ cresult.msg = outbox[3]

\* A message pulled by the waiting sendAndWaitComplete in this step.
TurnPulls(msg) ==
    /\ cop = "sendAndWaitComplete" /\ cpc = "waiting"
    /\ rd' = rd + 1
    /\ msg = outbox[rd + 1]

\* C23: only the matching session/complete ends the turn.  The step in which
\* sendAndWaitComplete returns is the pull of a session/complete whose
\* sessionId is the awaited one, which it returns with the text collected so
\* far; a pulled tool/call leaves the call waiting and the collected deltas
\* as they were.
C23_OnlyCompleteEndsTurn ==
    [][ /\ (cop' = "sendAndWaitComplete" /\ cpc' = "returned" /\ cpc # "returned")
             => /\ TurnPulls(outbox[rd + 1])
                /\ outbox[rd + 1].type = "session/complete"
                /\ outbox[rd + 1].sessionId = csid
                /\ cresult' = [msg |-> outbox[rd + 1], combined |-> Combined(deltasByIndex)]
        /\ \A msg \in {outbox[i] : i \in (rd + 1)..Len(outbox)} :
               (TurnPulls(msg) /\ msg.type = "tool/call")
                  => /\ cpc' = "waiting" /\ cresult' = NoResult
                     /\ deltasByIndex' = deltasByIndex ]_vars

\* The turn returned "a" with a tool/call received between the delta and
\* the session/complete.
C23_Witness ==
    /\ cop = "sendAndWaitComplete" /\ cpc = "returned"
    /\ rd = 3
    /\ outbox[1].type = "session/stream"
    /\ outbox[2].type = "tool/call" /\ outbox[2].sessionId = csid
    /\ outbox[3].type = "session/complete"
    /\ cresult.combined = <<"a">>

\* C24: a message that is no object, a message of a type the turn does not
\* expect, and a session/stream or session/complete of another session are
\* protocol errors: the pull of one rejects the waiting sendAndWaitComplete.
C24_ProtocolErrorAborts ==
    [][ \A msg \in {outbox[i] : i \in (rd + 1)..Len(outbox)} :
          ( /\ TurnPulls(msg)
            /\ \/ ~IsObject(msg)
               \/ msg.type \notin {"session/stream", "session/complete", "tool/call"}
               \/ (msg.type \in {"session/stream", "session/complete"} /\ msg.sessionId # csid) )
              => cpc' = "rejected" ]_vars

\* ============================================================== Chat.send
\* TaskBackedChat.send and runTaskSend against the mock agent: every send
\* spawns a fresh agent, replays the chat's user turns and sends the prompt.

ChatSid == Sid("c1")

Newline == "\n"

\* history.filter(m => m.role === "user" && typeof m.content === "string")
RECURSIVE PriorUsers(_)
PriorUsers(history) ==
    IF history = <<>> THEN <<>>
    ELSE IF Head(history).role = "user"
    THEN <<Head(history).content>> \o PriorUsers(Tail(history))
    ELSE PriorUsers(Tail(history))

\* combined.endsWith("\n") ? combined : combined + "\n"
EnsureTrailingNewline(text) ==
    IF text # <<>> /\ text[Len(text)] = Newline THEN text ELSE Append(text, Newline)

ChatInit ==
    /\ frames = <<>> /\ wire = <<>> /\ pos = 0
    /\ buffer = <<>> /\ offset = 0 /\ lastOut = <<>> /\ derr = "none"
    /\ queue = <<>> /\ waiters = <<>> /\ ended = FALSE /\ pulls = <<>>
    /\ attached = TRUE /\ sendCalls = <<>> /\ written = <<>> /\ needDrain = FALSE
    /\ aconfig \in AgentConfigs
    /\ inbox = <<>> /\ taken = 0 /\ sessions = <<>> /\ sessionCounter = 0
    /\ outbox = <<>> /\ apc = "absent" /\ turn = NoTurn
    /\ chats = <<>> /\ chatOrder = <<>> /\ chatCounter = 0
    /\ ClientAbsent
    /\ ChatAbsent
    /\ HostAbsent

\* chat.send(prompt): runTaskSend spawns the agent with the provider's
\* argv and waits for "ready" on a new transport.
ChatSend ==
    /\ dpc = "idle"
    /\ Len(persisted) < 2 * MaxSends
    /\ \E prompt \in Contents : dprompt' = prompt
    /\ inbox' = <<>> /\ taken' = 0 /\ sessions' = <<>> /\ sessionCounter' = 0
    /\ outbox' = <<>> /\ apc' = "boot" /\ turn' = NoTurn
    /\ chats' = <<>> /\ chatOrder' = <<>> /\ chatCounter' = 0
    /\ ended' = FALSE /\ attached' = TRUE /\ rd' = 0
    /\ CallWaitForType("ready")
    /\ dpc' = "awaitReady"
    /\ UNCHANGED <<aconfig, queue, waiters, pulls, sendCalls, written, needDrain, codecVars>>
    /\ UNCHANGED <<dprior, dqueue, dresult, dreply, persisted>>
    /\ UNCHANGED hostVars

\* Mutant of ChatStartSession: session/start is sent without awaiting the
\* waitForType(iter, "ready") call.
ChatStartSession_noWait ==
    /\ dpc = "awaitReady"
    /\ inbox' = Append(inbox, SessionStartMsg(ChatSid))
    /\ cop' = "waitForType" /\ cwant' = "session/started" /\ csid' = NoSid
    /\ cpc' = "waiting" /\ cerr' = "none"
    /\ deltasByIndex' = <<>> /\ cresult' = NoResult
    /\ timer' = "armed" /\ forwarded' = <<>>
    /\ UNCHANGED uncaught
    /\ dpc' = "awaitStarted"
    /\ UNCHANGED <<aconfig, chats, chatOrder, chatCounter, taken, sessions, sessionCounter, outbox, apc, turn>>
    /\ UNCHANGED <<rd, codecVars, transportVars>>
    /\ UNCHANGED <<dprompt, dprior, dqueue, dresult, dreply, persisted>>
    /\ UNCHANGED hostVars

\* "ready" has arrived: session/start is sent for the chat id and
\* "session/started" awaited.
ChatStartSession ==
    /\ dpc = "awaitReady" /\ cpc = "returned"
    /\ inbox' = Append(inbox, SessionStartMsg(ChatSid))
    /\ CallWaitForType("session/started")
    /\ dpc' = "awaitStarted"
    /\ UNCHANGED <<aconfig, chats, chatOrder, chatCounter, taken, sessions, sessionCounter, outbox, apc, turn>>
    /\ UNCHANGED <<rd, codecVars, transportVars>>
    /\ UNCHANGED <<dprompt, dprior, dqueue, dresult, dreply, persisted>>
    /\ UNCHANGED hostVars

\* "session/started" has arrived: the chat is read and the first of its
\* prior user turns, or the prompt if it has none, is sent.
ChatReadAndReplay ==
    /\ dpc = "awaitStarted" /\ cpc = "returned"
    /\ dprior' = persisted
    /\ LET contents == Append(PriorUsers(persisted), dprompt)
       IN /\ CallSendAndWaitComplete(ChatSid, Head(contents))
          /\ dqueue' = Tail(contents)
    /\ dpc' = "sending"
    /\ UNCHANGED <<aconfig, chats, chatOrder, chatCounter, taken, sessions, sessionCounter, outbox, apc, turn>>
    /\ UNCHANGED <<rd, codecVars, transportVars>>
    /\ UNCHANGED <<dprompt, dresult, dreply, persisted>>
    /\ UNCHANGED hostVars

\* A replayed turn has completed: the next content is sent.
ChatNextTurn ==
    /\ dpc = "sending" /\ cpc = "returned"
    /\ dqueue # <<>>
    /\ CallSendAndWaitComplete(ChatSid, Head(dqueue))
    /\ dqueue' = Tail(dqueue)
    /\ UNCHANGED <<aconfig, chats, chatOrder, chatCounter, taken, sessions, sessionCounter, outbox, apc, turn>>
    /\ UNCHANGED <<rd, codecVars, transportVars>>
    /\ UNCHANGED <<dpc, dprompt, dprior, dresult, dreply, persisted>>
    /\ UNCHANGED hostVars

\* The prompt's turn has completed: runTaskSend returns {combined, history}
\* and closes the connection; Chat.send writes the history to the chat and
\* returns combined with a trailing newline.
ChatFinish ==
    /\ dpc = "sending" /\ cpc = "returned"
    /\ dqueue = <<>>
    /\ dresult' = [combined |-> cresult.combined, history |-> cresult.msg.history]
    /\ ended' = TRUE /\ attached' = FALSE
    /\ apc' = "absent"
    /\ persisted' = cresult.msg.history
    /\ dreply' = EnsureTrailingNewline(cresult.combined)
    /\ dpc' = "idle"
    /\ UNCHANGED <<aconfig, chats, chatOrder, chatCounter, inbox, taken, sessions, sessionCounter, outbox, turn>>
    /\ UNCHANGED <<queue, waiters, pulls, sendCalls, written, needDrain, codecVars, clientVars>>
    /\ UNCHANGED <<dprompt, dprior, dqueue>>
    /\ UNCHANGED hostVars

ChatNext ==
    \/ ChatSend
    \/ ChatStartSession
    \/ ChatReadAndReplay
    \/ ChatNextTurn
    \/ ChatFinish
    \/ AgentReady
    \/ AgentSessionStart
    \/ AgentSendBegin
    \/ AgentStreamDelta
    \/ AgentSendComplete
    \/ ClientRecv
    \/ ClientTimeout

ChatSpec == ChatInit /\ [][ChatNext]_vars

\* A Chat.send that fails.

\* The agent process exits while a send is in progress: its stdout ends,
\* the transport's end handler closes the transport.  Messages it wrote
\* before are still yielded.
ChatAgentExits ==
    /\ dpc # "idle" /\ ~ended
    /\ ended' = TRUE /\ attached' = FALSE
    /\ apc' = "absent"
    /\ UNCHANGED <<aconfig, chats, chatOrder, chatCounter, inbox, taken, sessions, sessionCounter, outbox, turn>>
    /\ UNCHANGED <<queue, waiters, pulls, sendCalls, written, needDrain, codecVars, clientVars>>
    /\ UNCHANGED chatVars
    /\ UNCHANGED hostVars

\* Mutant of ChatFail: the failed call records the prompt in the chat.
ChatFail_persists ==
    /\ dpc # "idle" /\ cpc = "rejected"
    /\ ended' = TRUE /\ attached' = FALSE
    /\ apc' = "absent"
    /\ dpc' = "idle"
    /\ persisted' = Append(persisted, [role |-> "user", content |-> dprompt])
    /\ UNCHANGED <<aconfig, chats, chatOrder, chatCounter, inbox, taken, sessions, sessionCounter, outbox, turn>>
    /\ UNCHANGED <<queue, waiters, pulls, sendCalls, written, needDrain, codecVars, clientVars>>
    /\ UNCHANGED <<dprompt, dprior, dqueue, dresult, dreply>>
    /\ UNCHANGED hostVars

\* An awaited call of runTaskSend has thrown: the finally block closes the
\* connection, runTaskSend rejects, and Chat.send rejects at its await, in
\* front of readChat and writeChat.
ChatFail ==
    /\ dpc # "idle" /\ cpc = "rejected"
    /\ ended' = TRUE /\ attached' = FALSE
    /\ apc' = "absent"
    /\ dpc' = "idle"
    /\ UNCHANGED <<aconfig, chats, chatOrder, chatCounter, inbox, taken, sessions, sessionCounter, outbox, turn>>
    /\ UNCHANGED <<queue, waiters, pulls, sendCalls, written, needDrain, codecVars, clientVars>>
    /\ UNCHANGED <<dprompt, dprior, dqueue, dresult, dreply, persisted>>
    /\ UNCHANGED hostVars

ChatFailNext ==
    \/ ChatSend
    \/ ChatStartSession
    \/ ChatReadAndReplay
    \/ ChatNextTurn
    \/ ChatFinish
    \/ ChatAgentExits
    \/ ChatFail
    \/ AgentReady
    \/ AgentSessionStart
    \/ AgentSendBegin
    \/ AgentStreamDelta
    \/ AgentSendComplete
    \/ ClientRecv
    \/ ClientEndOfStream
    \/ ClientTimeout

ChatFailSpec == ChatInit /\ [][ChatFailNext]_vars

\* The call in progress has returned the session/complete of the chat's
\* session that answers the prompt, the last content of the run.
TerminalCompleteReceived ==
    /\ dpc = "sending" /\ dqueue = <<>>
    /\ cop = "sendAndWaitComplete" /\ cpc = "returned"
    /\ cresult.msg = outbox[rd]
    /\ cresult.msg.type = "session/complete"
    /\ cresult.msg.sessionId = ChatSid

\* C39: the chat's persisted history changes only in a step taken after the
\* terminal session/complete of the send has been received, and then to the
\* history of that message; a send that fails before it (end of stream,
\* send on a closed transport, timeout) leaves the record as it was.
C39_FailedSendKeepsRecord ==
    [][/\ persisted' # persisted =>
            (TerminalCompleteReceived /\ persisted' = cresult.msg.history)
       /\ (dpc # "idle" /\ dpc' = "idle" /\ ~TerminalCompleteReceived) =>
            persisted' = persisted]_vars

\* A second send on a chat with one persisted turn has failed with
\* "Unexpected end of stream" after a delta of its replayed turn was read;
\* the record still holds the first turn only.
C39_Witness ==
    /\ dpc = "idle" /\ cpc = "rejected" /\ cerr = "end"
    /\ cop = "sendAndWaitComplete" /\ forwarded # <<>>
    /\ Len(persisted) = 2
    /\ persisted = dprior

\* ------------------------------------------------------------- chat claims

\* What the session/send branch of handleChunk writes for one turn: the
\* session afterwards and the messages, for the configuration cfg.
TurnOf(cfg, sid, session, content) ==
    LET user == PushUserTurn(session, content)
        assistantContent == AssistantContent(user.turns, content)
        deltas == chunkString(assistantContent, cfg.chunks)
        after == PushAssistantTurn(user, assistantContent)
    IN [session |-> after,
        msgs |-> (IF cfg.streaming /\ cfg.emitToolCalls
                  THEN <<ToolCallMsg(sid, user.turns, Len(content))>> ELSE <<>>)
                 \o (IF cfg.streaming
                     THEN [i \in 1..Len(deltas) |-> SessionStreamMsg(sid, i - 1, deltas[i])]
                     ELSE <<>>)
                 \o <<SessionCompleteMsg(sid, assistantContent, after.history)>>]

\* One continuous session fed the contents in order, each through
\* sendAndWaitComplete: the result of the last call.
RECURSIVE ContinuousSession(_, _, _, _)
ContinuousSession(cfg, sid, session, contents) ==
    LET t == TurnOf(cfg, sid, session, Head(contents))
    IN IF Len(contents) = 1 THEN Collect(sid, t.msgs)
       ELSE ContinuousSession(cfg, sid, t.session, Tail(contents))

NewSession == [history |-> <<>>, turns |-> 0]

\* C7 as stated: the text sendAndWaitComplete returns for a turn is the
\* text it returns for the same session state and the same content when
\* the agent runs with the other setting of the streaming toggle.
C7_StreamingParity ==
    (cop = "sendAndWaitComplete" /\ cpc = "returned")
    => LET history == cresult.msg.history
           before == [history |-> SubSeq(history, 1, Len(history) - 2),
                      turns |-> (Len(history) \div 2) - 1]
           content == history[Len(history) - 1].content
           toggled == [aconfig EXCEPT !.streaming = ~@]
       IN cresult.combined
              = Collect(csid, TurnOf(toggled, csid, before, content).msgs).combined

\* C9 as stated: a send of p on a chat holding N completed turns returns
\* the reply and the history of turn N+1 of one continuous session fed the
\* same N+1 user contents, the reply is "MockAgent response #(N+1): p" and
\* 2(N+1) entries are persisted.
C9_ReplayEquivalence ==
    (dpc = "idle" /\ dresult # NoRun)
    => LET n == Len(dprior) \div 2
           contents == Append(PriorUsers(dprior), dprompt)
           continuous == ContinuousSession(aconfig, ChatSid, NewSession, contents)
       IN /\ dresult.combined = continuous.combined
          /\ dresult.history = continuous.msg.history
          /\ persisted = continuous.msg.history
          /\ dresult.combined = AssistantContent(n + 1, dprompt)
          /\ Len(persisted) = 2 * (n + 1)

\* The driver has pulled a message of this type from the transport.
Received(type) == \E j \in 1..rd : outbox[j].type = type

\* C21: handshake order.  The step in which the driver writes session/start
\* is taken only after the driver has received ready, and the step in which
\* it writes a session/send only after it has received session/started (and
\* after its session/start); the driver writes nothing else.
C21_HandshakeOrder ==
    [][ Len(inbox') > Len(inbox)
          => LET sent == inbox'[Len(inbox')]
             IN /\ Len(inbox') = Len(inbox) + 1
                /\ sent.type \in {"session/start", "session/send"}
                /\ sent.type = "session/start" => Received("ready")
                /\ sent.type = "session/send"
                     => /\ Received("ready") /\ Received("session/started")
                        /\ inbox # <<>> /\ inbox[1].type = "session/start" ]_vars

\* The driver has sent session/start and then a session/send, each behind
\* the message it had to wait for.
C21_Witness ==
    /\ Len(inbox) = 2
    /\ inbox[1].type = "session/start" /\ inbox[2].type = "session/send"
    /\ rd = 2
    /\ outbox[1].type = "ready" /\ outbox[2].type = "session/started"

\* ============================================================ frame codec
\* A fresh FrameDecoder is fed the wire in consecutive slices.

CodecInit ==
    /\ frames \in FrameSeqs
    /\ wire = WireOf(frames)
    /\ pos = 0
    /\ buffer = <<>>
    /\ offset = 0
    /\ lastOut = <<>>
    /\ derr = "none"
    /\ queue = <<>>
    /\ waiters = <<>>
    /\ ended = FALSE
    /\ pulls = <<>>
    /\ attached = TRUE /\ sendCalls = <<>> /\ written = <<>> /\ needDrain = FALSE
    /\ AgentAbsent
    /\ ClientAbsent
    /\ ChatAbsent
    /\ HostAbsent

\* decoder.push(chunk) with the next k > 0 bytes of the wire.
PushChunk ==
    \E k \in 1..(Len(wire) - pos) :
        LET r == push(buffer, offset, Slice(wire, pos, pos + k))
        IN /\ pos' = pos + k
           /\ buffer' = r.buffer
           /\ offset' = r.offset
           /\ lastOut' = IF r.err = "none" THEN r.out ELSE <<>>
           /\ derr' = r.err
           /\ UNCHANGED <<frames, wire, transportVars, agentVars, clientVars, chatVars, hostVars>>

\* decoder.push(new Uint8Array(0)).
PushEmpty ==
    LET r == push(buffer, offset, <<>>)
    IN /\ lastOut # <<>> \/ derr # "none"
       /\ buffer' = r.buffer
       /\ offset' = r.offset
       /\ lastOut' = r.out
       /\ derr' = r.err
       /\ UNCHANGED <<frames, wire, pos, transportVars, agentVars, clientVars, chatVars, hostVars>>

CodecNext == PushChunk \/ PushEmpty

CodecSpec == CodecInit /\ [][CodecNext]_vars

\* ------------------------------------------------------- frame codec claims

\* C1: chunk-boundary independence.  When the wire is one frame encodeFrame(v)
\* and it is pushed into a fresh decoder in consecutive non-empty slices cut
\* anywhere (inside the 4-byte length prefix too), every push returns [] except
\* the push that delivers the last byte, which returns [v] without throwing.
C1_ChunkBoundaryIndependence ==
    [][ (Len(frames) = 1 /\ AllEncoded(frames) /\ pos' > pos)
            => /\ derr' = "none"
               /\ lastOut' = IF pos' = Len(wire) THEN <<frames[1].v>> ELSE <<>> ]_vars

\* A slice that ends inside the length prefix has been pushed and returned [].
C1_Witness ==
    /\ Len(frames) = 1 /\ AllEncoded(frames)
    /\ pos = 2
    /\ buffer = Slice(wire, 0, 2) /\ offset = 0
    /\ lastOut = <<>> /\ derr = "none"

\* C2: round trip.  The frame of v is the 4-byte big-endian byte length of the
\* UTF-8 JSON text of v followed by exactly that many bytes, and pushing it
\* into a fresh decoder in one push returns exactly [v].
C2_RoundTrip ==
    [][ (Len(frames) = 1 /\ AllEncoded(frames) /\ pos = 0 /\ pos' = Len(wire))
            => /\ getUint32(wire, 0) = Len(utf8Encode(JSONstringify(frames[1].v)))
               /\ Len(wire) = 4 + getUint32(wire, 0)
               /\ Slice(wire, 4, Len(wire)) = utf8Encode(JSONstringify(frames[1].v))
               /\ derr' = "none"
               /\ lastOut' = <<frames[1].v>> ]_vars

\* One push of a whole frame, whose payload is longer in bytes than in
\* characters, has returned its value.
C2_Witness ==
    /\ Len(frames) = 1 /\ AllEncoded(frames)
    /\ pos = Len(wire) /\ lastOut = <<frames[1].v>>
    /\ buffer = <<>> /\ offset = 0
    /\ Len(wire) - 4 > Len(JSONstringify(frames[1].v))

\* C3: multi-frame batching.  Pushing encodeFrame(a) followed by encodeFrame(b)
\* into a fresh decoder in a single push returns [a, b], in wire order.
C3_MultiFrameBatching ==
    [][ (Len(frames) = 2 /\ AllEncoded(frames) /\ pos = 0 /\ pos' = Len(wire))
            => /\ derr' = "none"
               /\ lastOut' = <<frames[1].v, frames[2].v>> ]_vars

\* Two different values came out of one push.
C3_Witness ==
    /\ Len(frames) = 2 /\ AllEncoded(frames) /\ frames[1].v # frames[2].v
    /\ pos = Len(wire) /\ Len(lastOut) = 2
    /\ lastOut[1] = frames[1].v /\ lastOut[2] = frames[2].v

\* The position on the wire of the first header byte of frame i.
FrameStart(fs, i) == Len(WireOf(SubSeq(fs, 1, i - 1)))

\* The length the header of frame i declares.
DeclaredLength(fs, i) == getUint32(fs[i].bytes, 0)

\* C17: the 100 MiB ceiling.  When every frame before frame i is well formed,
\* the push that brings the fourth header byte of frame i throws "Frame too
\* large" if the header declares more than 104,857,600 bytes, whether or not
\* any byte behind the header has arrived; a header declaring exactly
\* 104,857,600 bytes is accepted, and the decoder goes on waiting for the
\* payload without throwing.
C17_FrameCeiling ==
    [][ \A i \in 1..Len(frames) :
          AllEncoded(SubSeq(frames, 1, i - 1))
            => /\ (pos < FrameStart(frames, i) + 4 /\ pos' >= FrameStart(frames, i) + 4)
                    => /\ DeclaredLength(frames, i) > 104857600 => derr' = "too_large"
                       /\ DeclaredLength(frames, i) = 104857600 => derr' = "none"
               /\ (DeclaredLength(frames, i) = 104857600
                     /\ pos >= FrameStart(frames, i) + 4 /\ pos' > pos)
                    => derr' = "none" /\ lastOut' = <<>> ]_vars

\* A push ended exactly on the fourth byte of a header declaring 104,857,601
\* bytes, behind a well-formed frame, and threw with no payload byte buffered.
C17_Witness ==
    /\ Len(frames) = 2 /\ ~frames[1].raw
    /\ frames[2].bytes = <<6, 64, 0, 1>>
    /\ pos = Len(wire)
    /\ derr = "too_large"
    /\ Len(buffer) - offset = 4

\* C18: a JSON parse failure is fatal.  The push that completes a frame
\* whose payload is not JSON throws, and after that throw no push returns a
\* message: decoding is not resumed at the frame behind the bad one.
C18_InvalidJsonFatal ==
    [][ /\ \A i \in 1..Len(frames) :
              ( /\ AllEncoded(SubSeq(frames, 1, i - 1))
                /\ frames[i].bytes = <<0, 0, 0, 1, 120>>
                /\ pos < FrameStart(frames, i) + 5
                /\ pos' >= FrameStart(frames, i) + 5 )
                  => derr' = "invalid_json"
        /\ (derr = "invalid_json" /\ pos' > pos) => lastOut' = <<>> ]_vars

\* The values of the frames whose last byte lies behind the first from
\* bytes of the wire and within the first to.
CompletedBetween(from, to) ==
    LET done == SelectSeq([i \in 1..Len(frames) |-> i],
                          LAMBDA i : /\ FrameStart(frames, i + 1) > from
                                     /\ FrameStart(frames, i + 1) <= to)
    IN [k \in 1..Len(done) |-> frames[done[k]].v]

\* C35: decoding does not depend on the chunking.  Whatever frames
\* encodeFrame produced are on the wire and wherever it is cut, no push
\* throws and each push returns, in wire order, exactly the values of the
\* frames whose last byte it brought; so each value is returned once, by
\* the first push that has its last byte, and the returned lists joined
\* are the frame values in wire order.
C35_ChunkingIndependence ==
    [][ AllEncoded(frames)
          => /\ derr' = "none"
             /\ lastOut' = CompletedBetween(pos, pos') ]_vars

\* The last push brought the end of the second frame only and returned the
\* second value alone, the first having been returned by an earlier push.
C35_Witness ==
    /\ Len(frames) = 2 /\ AllEncoded(frames) /\ frames[1].v # frames[2].v
    /\ pos = Len(wire) /\ derr = "none"
    /\ lastOut = <<frames[2].v>>

\* The unconsumed tail of a decoder's buffer.
TailOf(buf, off) == Slice(buf, off, Len(buf))

\* The bytes hold a whole frame at their start.
HoldsFrame(bytes) == Len(bytes) >= 4 /\ Len(bytes) >= 4 + getUint32(bytes, 0)

\* The bytes are whole frames of the wire, one behind the other, and out
\* holds their values.
WholeFramesReturned(bytes, out) ==
    \E i \in 1..(Len(frames) + 1) : \E j \in (i - 1)..Len(frames) :
        /\ bytes = WireOf(SubSeq(frames, i, j))
        /\ out = ValuesOf(SubSeq(frames, i, j))

\* C30: the decoder's buffer after a push that returns normally.
\* 0 <= offset <= buffer length; the unconsumed tail holds no complete
\* frame; an empty tail means buffer empty and offset 0; a push of a
\* non-empty chunk works on the earlier tail followed by the chunk, byte for
\* byte, and the bytes it leaves before offset (all of them when the buffer
\* is reset) are the whole frames it returns; a push of an empty chunk
\* changes neither field.
C30_DecoderBuffer ==
    [][ derr' = "none"
          => LET tail == TailOf(buffer', offset')
                 work == TailOf(buffer, offset) \o Slice(wire, pos, pos')
             IN /\ 0 <= offset' /\ offset' <= Len(buffer')
                /\ ~HoldsFrame(tail)
                /\ tail = <<>> => (buffer' = <<>> /\ offset' = 0)
                /\ pos' > pos
                     => /\ buffer' = work \/ (buffer' = <<>> /\ offset' = 0)
                        /\ tail = SubSeq(work, Len(work) - Len(tail) + 1, Len(work))
                        /\ WholeFramesReturned(
                              SubSeq(work, 1, Len(work) - Len(tail)), lastOut')
                /\ pos' = pos => (buffer' = buffer /\ offset' = offset) ]_vars

\* ===================================================== StdioJsonTransport
\* The transport as a record [queue, waiters, ended, pulls]; a pull is the
\* promise a next() call returned: pending, resolved with a value, or
\* resolved with done.

PullPending == [state |-> "pending", v |-> JNull, via |-> "none"]

\* via tells which line resolved the promise: next() itself, from the queue,
\* or enqueue(), through the waiter.
PullValue(v, via) == [state |-> "value", v |-> v, via |-> via]

\* via "close": close() resolved a waiting pull; via "ended": next() found
\* the transport ended.
PullDone(via) == [state |-> "done", v |-> JNull, via |-> via]

Transport ==
    [queue |-> queue, waiters |-> waiters, ended |-> ended, pulls |-> pulls,
     attached |-> attached]

\* Mutant of next: an ended transport answers done whatever is buffered.
next_endedFirst(t) ==
    IF t.ended
    THEN [t EXCEPT !.pulls = Append(t.pulls, PullDone("ended"))]
    ELSE IF Len(t.queue) > 0
    THEN [t EXCEPT !.queue = Tail(t.queue),
                   !.pulls = Append(t.pulls, PullValue(Head(t.queue), "queue"))]
    ELSE [t EXCEPT !.waiters = Append(t.waiters, Len(t.pulls) + 1),
                   !.pulls = Append(t.pulls, PullPending)]

\* Mutant of next: while the transport is open every pull waits, behind
\* whatever is buffered.
next_waitsBehindQueue(t) ==
    IF ~t.ended
    THEN [t EXCEPT !.waiters = Append(t.waiters, Len(t.pulls) + 1),
                   !.pulls = Append(t.pulls, PullPending)]
    ELSE IF Len(t.queue) > 0
    THEN [t EXCEPT !.queue = Tail(t.queue),
                   !.pulls = Append(t.pulls, PullValue(Head(t.queue), "queue"))]
    ELSE [t EXCEPT !.pulls = Append(t.pulls, PullDone("ended"))]

\* StdioJsonTransport.next()
next(t) ==
    IF Len(t.queue) > 0
    THEN [t EXCEPT !.queue = Tail(t.queue),
                   !.pulls = Append(t.pulls, PullValue(Head(t.queue), "queue"))]
    ELSE IF t.ended
    THEN [t EXCEPT !.pulls = Append(t.pulls, PullDone("ended"))]
    ELSE [t EXCEPT !.waiters = Append(t.waiters, Len(t.pulls) + 1),
                   !.pulls = Append(t.pulls, PullPending)]

\* Mutant of enqueue: the message is buffered even when a pull is waiting.
enqueue_ignoresWaiter(t, message) == [t EXCEPT !.queue = Append(t.queue, message)]

\* StdioJsonTransport.enqueue(message)
enqueue(t, message) ==
    IF Len(t.waiters) > 0
    THEN [t EXCEPT !.waiters = Tail(t.waiters),
                   !.pulls[Head(t.waiters)] = PullValue(message, "waiter")]
    ELSE [t EXCEPT !.queue = Append(t.queue, message)]

\* for (const msg of messages) this.enqueue(msg)
RECURSIVE enqueueAll(_, _)
enqueueAll(t, messages) ==
    IF messages = <<>> THEN t
    ELSE enqueueAll(enqueue(t, Head(messages)), Tail(messages))

\* Mutant of close: the waiting pulls are left unresolved.
close_leavesWaiters(t) ==
    IF t.ended THEN t ELSE [t EXCEPT !.ended = TRUE, !.attached = FALSE]

\* Mutant of close: the listeners stay on the readable.
close_keepsListening(t) ==
    IF t.ended THEN t
    ELSE [t EXCEPT !.ended = TRUE,
                   !.waiters = <<>>,
                   !.pulls = [i \in 1..Len(t.pulls) |->
                                 IF \E w \in 1..Len(t.waiters) : t.waiters[w] = i
                                 THEN PullDone("close") ELSE t.pulls[i]]]

\* StdioJsonTransport.close()
close(t) ==
    IF t.ended THEN t
    ELSE [t EXCEPT !.ended = TRUE,
                   !.attached = FALSE,
                   !.waiters = <<>>,
                   !.pulls = [i \in 1..Len(t.pulls) |->
                                 IF \E w \in 1..Len(t.waiters) : t.waiters[w] = i
                                 THEN PullDone("close") ELSE t.pulls[i]]]

SetTransport(t) ==
    /\ queue' = t.queue
    /\ waiters' = t.waiters
    /\ ended' = t.ended
    /\ pulls' = t.pulls
    /\ attached' = t.attached
    /\ UNCHANGED <<sendCalls, written, needDrain>>

\* Short frames for the transport: two values, a payload that is not JSON, a
\* header above the ceiling.
TransportFrames ==
    { [raw |-> FALSE, v |-> v, bytes |-> encodeFrame(v)] : v \in {JNum(7), JArr(<<>>)} }
        \cup { [raw |-> TRUE, v |-> JNull, bytes |-> b] :
                   b \in {<<0, 0, 0, 1, 120>>, <<6, 64, 0, 1>>} }

TransportInit ==
    /\ frames \in UNION { [1..n -> TransportFrames] : n \in 1..MaxFrames }
    /\ wire = WireOf(frames)
    /\ pos = 0
    /\ buffer = <<>>
    /\ offset = 0
    /\ lastOut = <<>>
    /\ derr = "none"
    /\ queue = <<>>
    /\ waiters = <<>>
    /\ ended = FALSE
    /\ pulls = <<>>
    /\ attached = TRUE /\ sendCalls = <<>> /\ written = <<>> /\ needDrain = FALSE
    /\ AgentAbsent
    /\ ClientAbsent
    /\ ChatAbsent
    /\ HostAbsent

\* The consumer awaits iter.next().
TNext ==
    /\ Len(pulls) < MaxPulls
    /\ SetTransport(next(Transport))
    /\ UNCHANGED <<codecVars, agentVars, clientVars, chatVars, hostVars>>

\* The readable emits "data" with the next k > 0 bytes: onData(chunk).  A
\* throw of push is caught and handed to onError, which closes.
TOnData ==
    /\ attached
    /\ \E k \in 1..(Len(wire) - pos) :
        LET r == push(buffer, offset, Slice(wire, pos, pos + k))
        IN /\ pos' = pos + k
           /\ buffer' = r.buffer
           /\ offset' = r.offset
           /\ lastOut' = IF r.err = "none" THEN r.out ELSE <<>>
           /\ derr' = r.err
           /\ SetTransport(IF r.err = "none" THEN enqueueAll(Transport, r.out)
                           ELSE close(Transport))
           /\ UNCHANGED <<frames, wire, agentVars, clientVars, chatVars, hostVars>>

\* The readable emits "end": onEnd().
TOnEnd ==
    /\ attached
    /\ SetTransport(close(Transport))
    /\ UNCHANGED <<codecVars, agentVars, clientVars, chatVars, hostVars>>

\* The readable emits "error": onError(err).
TOnError ==
    /\ attached
    /\ SetTransport(close(Transport))
    /\ UNCHANGED <<codecVars, agentVars, clientVars, chatVars, hostVars>>

\* The owner calls transport.close().
TClose ==
    /\ SetTransport(close(Transport))
    /\ UNCHANGED <<codecVars, agentVars, clientVars, chatVars, hostVars>>

\* Mutant of sendOutcome: send returns without awaiting the drain.
sendOutcome_noWait(isEnded, ok) ==
    IF isEnded THEN [state |-> "rejected", ok |-> FALSE, why |-> "closed"]
    ELSE [state |-> "resolved", ok |-> ok, why |-> "written"]

\* What send(message) does given what writable.write returns: the promise
\* it returns, as [state, ok].
sendOutcome(isEnded, ok) ==
    IF isEnded THEN [state |-> "rejected", ok |-> FALSE, why |-> "closed"]
    ELSE IF ok THEN [state |-> "resolved", ok |-> TRUE, why |-> "written"]
    ELSE [state |-> "waiting", ok |-> FALSE, why |-> "none"]

\* The owner calls transport.send(message).  write() returns false while
\* the sink has not drained, and may return false at any write.
TSend ==
    /\ Len(sendCalls) < MaxWrites
    /\ \E message \in {JNum(7), JArr(<<>>)}, ok \in BOOLEAN :
           /\ needDrain => ~ok
           /\ sendCalls' = Append(sendCalls, sendOutcome(ended, ok))
           /\ written' = IF ended THEN written ELSE Append(written, encodeFrame(message))
           /\ needDrain' = IF ended THEN needDrain ELSE ~ok
    /\ UNCHANGED <<queue, waiters, ended, pulls, attached>>
    /\ UNCHANGED <<codecVars, agentVars, clientVars, chatVars, hostVars>>

\* The writable emits "drain": onDrain of every waiting send.
TDrain ==
    /\ needDrain
    /\ needDrain' = FALSE
    /\ sendCalls' = [i \in 1..Len(sendCalls) |->
                        IF sendCalls[i].state = "waiting"
                        THEN [sendCalls[i] EXCEPT !.state = "resolved", !.why = "drain"]
                        ELSE sendCalls[i]]
    /\ UNCHANGED <<queue, waiters, ended, pulls, attached, written>>
    /\ UNCHANGED <<codecVars, agentVars, clientVars, chatVars, hostVars>>

\* The writable emits "error" while sends are waiting: onError of each.
TSinkError ==
    /\ \E i \in 1..Len(sendCalls) : sendCalls[i].state = "waiting"
    /\ sendCalls' = [i \in 1..Len(sendCalls) |->
                        IF sendCalls[i].state = "waiting"
                        THEN [sendCalls[i] EXCEPT !.state = "rejected", !.why = "error"]
                        ELSE sendCalls[i]]
    /\ UNCHANGED <<queue, waiters, ended, pulls, attached, written, needDrain>>
    /\ UNCHANGED <<codecVars, agentVars, clientVars, chatVars, hostVars>>

TransportNext == TNext \/ TOnData \/ TOnEnd \/ TOnError \/ TClose

\* The outbound side alone: nothing arrives on the readable.
SendInit ==
    /\ frames = <<>> /\ wire = <<>> /\ pos = 0
    /\ buffer = <<>> /\ offset = 0 /\ lastOut = <<>> /\ derr = "none"
    /\ queue = <<>> /\ waiters = <<>> /\ ended = FALSE /\ pulls = <<>>
    /\ attached = TRUE /\ sendCalls = <<>> /\ written = <<>> /\ needDrain = FALSE
    /\ AgentAbsent
    /\ ClientAbsent
    /\ ChatAbsent
    /\ HostAbsent

SendNext == TSend \/ TDrain \/ TSinkError \/ TClose

SendSpec == SendInit /\ [][SendNext]_vars

TransportSpec == TransportInit /\ [][TransportNext]_vars

\* ------------------------------------------------------- transport claims

\* The values of the frames that precede the first frame no encodeFrame
\* produced and whose last byte is among the first p bytes of the wire.
RECURSIVE ArrivedValues(_, _)
ArrivedValues(fs, p) ==
    IF fs = <<>> \/ Head(fs).raw \/ Len(Head(fs).bytes) > p THEN <<>>
    ELSE <<Head(fs).v>> \o ArrivedValues(Tail(fs), p - Len(Head(fs).bytes))

PulledValues == [i \in 1..Cardinality({j \in 1..Len(pulls) : pulls[j].state = "value"}) |-> pulls[i].v]

\* C4: while the transport is open (which implies no decode error has
\* occurred), the values successive next() calls have returned, followed by
\* the queued messages, are exactly the frames that have arrived, in arrival
\* order; the pulls are resolved in call order, the unresolved ones are the
\* waiters, oldest first, and no message sits in the queue while a pull waits.
C4_InOrderDelivery ==
    ~ended =>
        /\ \A i \in 1..Len(pulls) : pulls[i].state \in {"value", "pending"}
        /\ \A i, j \in 1..Len(pulls) :
               (i < j /\ pulls[j].state = "value") => pulls[i].state = "value"
        /\ PulledValues \o queue = ArrivedValues(frames, pos)
        /\ queue = <<>> \/ waiters = <<>>
        /\ waiters = [w \in 1..Len(waiters) |-> Len(PulledValues) + w]
        /\ Len(PulledValues) + Len(waiters) = Len(pulls)

\* Two different messages were delivered, the first to a pull that was already
\* waiting and the second through the queue.
C4_Witness ==
    /\ ~ended /\ derr = "none"
    /\ Len(pulls) = 2 /\ pulls[1].state = "value" /\ pulls[2].state = "value"
    /\ pulls[1].v = frames[1].v /\ pulls[2].v = frames[2].v
    /\ pulls[1].v # pulls[2].v
    /\ pulls[1].via = "waiter" /\ pulls[2].via = "queue"
    /\ queue = <<>> /\ waiters = <<>>

\* C15: the step that ends the transport takes the listeners off the
\* readable and resolves every waiting next() with done, leaving resolved
\* pulls and the queue alone; once ended, no step (a further close() among
\* them) changes the transport, except that each new next() is resolved at
\* once, with a buffered message or with done.
C15_CloseIdempotent ==
    [][ /\ (~ended /\ ended')
            => /\ ~attached' /\ waiters' = <<>>
               /\ queue' = queue
               /\ pulls' = [i \in 1..Len(pulls) |->
                               IF pulls[i].state = "pending"
                               THEN PullDone("close") ELSE pulls[i]]
        /\ ended
            => /\ ended' /\ ~attached' /\ waiters' = <<>>
               /\ \A i \in 1..Len(pulls) : pulls[i].state # "pending"
               /\ \/ pulls' = pulls /\ queue' = queue
                  \/ /\ Len(pulls') = Len(pulls) + 1
                     /\ SubSeq(pulls', 1, Len(pulls)) = pulls
                     /\ pulls'[Len(pulls')].state # "pending" ]_vars

\* close() resolved a pull that was waiting, and a next() issued after it
\* was resolved with done at once.
C15_Witness ==
    /\ ended /\ ~attached /\ waiters = <<>>
    /\ Len(pulls) = 2
    /\ pulls[1] = PullDone("close")
    /\ pulls[2] = PullDone("ended")

\* C16: a push that throws, the "end" event and the "error" event each end
\* the transport; once ended, no more bytes are taken from the readable,
\* the decoder is not touched again, and no message is added to the queue
\* or handed to a pull.
C16_FailClosed ==
    [][ /\ (pos' > pos /\ derr' # "none") => ended'
        /\ (TOnEnd \/ TOnError) => ended'
        /\ ended
            => /\ ended'
               /\ UNCHANGED <<pos, buffer, offset, derr>>
               /\ queue' = queue \/ (queue # <<>> /\ queue' = Tail(queue))
               /\ \A i \in 1..Len(pulls') :
                      pulls'[i].state = "value" /\ pulls'[i].via = "waiter"
                          => (i <= Len(pulls) /\ pulls[i] = pulls'[i]) ]_vars

\* The transport ended on a payload that is not JSON while the bytes of a
\* well-formed frame behind it were still to come; they are never read.
C16_Witness ==
    /\ ended /\ derr = "invalid_json"
    /\ Len(frames) = 2 /\ frames[1].raw /\ ~frames[2].raw
    /\ pos < Len(wire)
    /\ queue = <<>>

\* ------------------------------------------------------------ send claims

\* C19: a send() whose write was accepted is resolved at once and its frame
\* is on the sink; a send() whose write returned false waits, is resolved
\* by nothing but the sink's "drain" and rejected by nothing but the sink's
\* "error"; both events settle every waiting send, and a settled send never
\* changes.
C19_SendBackpressure ==
    [][ /\ Len(sendCalls') = Len(sendCalls) + 1
            => LET call == sendCalls'[Len(sendCalls')]
               IN /\ SubSeq(sendCalls', 1, Len(sendCalls)) = sendCalls
                  /\ call.state = "resolved" => (call.ok /\ ~needDrain')
                  /\ ~ended => /\ Len(written') = Len(written) + 1
                               /\ call.state = IF needDrain' THEN "waiting" ELSE "resolved"
        /\ \A i \in 1..Len(sendCalls) :
               /\ sendCalls[i].state # "waiting" => sendCalls'[i] = sendCalls[i]
               /\ sendCalls[i].state = "waiting"
                      => /\ sendCalls'[i].state = "resolved" <=> (needDrain /\ ~needDrain')
                         /\ sendCalls'[i].state = "rejected" <=> TSinkError ]_vars

\* One send was resolved by a drain and a later one rejected by a sink
\* error, both after write() had returned false.
C19_Witness ==
    /\ Len(sendCalls) = 2
    /\ sendCalls[1] = [state |-> "resolved", ok |-> FALSE, why |-> "drain"]
    /\ sendCalls[2] = [state |-> "rejected", ok |-> FALSE, why |-> "error"]
    /\ Len(written) = 2

\* C32: queue and waiters exclude each other.  In every state the message
\* queue or the waiter list is empty, the waiter list holds exactly the
\* pulls still pending, and it is empty once the transport has ended; a
\* step that lengthens the queue leaves no pull waiting, and a step that
\* adds a waiter finds the queue empty and the transport open.
C32_QueueXorWaiters ==
    [][ /\ (queue' = <<>> \/ waiters' = <<>>)
        /\ ended' => waiters' = <<>>
        /\ \A i \in 1..Len(pulls') :
               pulls'[i].state = "pending" <=> \E w \in 1..Len(waiters') : waiters'[w] = i
        /\ Len(queue') > Len(queue) => (waiters' = <<>> /\ ~ended)
        /\ Len(waiters') > Len(waiters) => (queue = <<>> /\ queue' = <<>> /\ ~ended')
      ]_vars

\* Two messages came in one chunk while one pull was waiting: the first
\* went to the pull, the second into the queue.
C32_Witness ==
    /\ ~ended /\ Len(pulls) = 1 /\ Len(frames) = 2
    /\ pulls[1] = PullValue(frames[1].v, "waiter")
    /\ queue = <<frames[2].v>> /\ waiters = <<>>

\* C33: buffered messages outlive the close.  The step that ends the
\* transport leaves the queue as it is; every next() on an ended transport
\* takes the oldest buffered message while there is one, and is answered
\* done only when the queue is empty.
C33_DeliveredAfterClose ==
    [][ /\ (~ended /\ ended') => queue' = queue
        /\ (ended /\ Len(pulls') > Len(pulls))
            => /\ Len(pulls') = Len(pulls) + 1
               /\ SubSeq(pulls', 1, Len(pulls)) = pulls
               /\ IF queue # <<>>
                  THEN /\ pulls'[Len(pulls')] = PullValue(Head(queue), "queue")
                       /\ queue' = Tail(queue)
                  ELSE /\ pulls'[Len(pulls')] = PullDone("ended")
                       /\ queue' = <<>>
      ]_vars

\* Two messages were buffered with nobody pulling and the transport has
\* ended; two pulls got the first and the second from the queue.
C33_Witness ==
    /\ ended /\ Len(frames) = 2 /\ AllEncoded(frames) /\ frames[1].v # frames[2].v
    /\ queue = <<>>
    /\ pulls = <<PullValue(frames[1].v, "queue"), PullValue(frames[2].v, "queue")>>

\* The values handed to pulls so far, in pull order.
DeliveredValues ==
    LET got == SelectSeq(pulls, LAMBDA pl : pl.state = "value")
    IN [i \in 1..Len(got) |-> got[i].v]

\* The values of the frames in front of the first malformed frame.
RECURSIVE ValidPrefix(_)
ValidPrefix(fs) ==
    IF fs = <<>> \/ Head(fs).raw THEN <<>> ELSE <<Head(fs).v>> \o ValidPrefix(Tail(fs))

\* C34: valid frames in front of a malformed frame are not lost.  Once a
\* push has thrown on the malformed frame, every frame in front of it has
\* been handed to a pull or is buffered for one, in wire order, wherever
\* the chunk boundaries fell.
C34_ValidBeforeMalformed ==
    derr # "none" => DeliveredValues \o queue = ValidPrefix(frames)

\* ======================================================= provider registry
\* Agnet.providers.register and Agnet.resolveDefaultProvider.  A provider
\* ref is [id, extensions]: the id and card.extensions of the ref that
\* registerProvider returns for the input.

\* card.extensions of a ref: undefined, { default: true },
\* { isDefault: true }, { default: "true" }.
NoExtensions == [object |-> FALSE, default |-> "undefined", isDefault |-> "undefined"]

ExtensionsValues ==
    { NoExtensions,
      [object |-> TRUE, default |-> "true", isDefault |-> "undefined"],
      [object |-> TRUE, default |-> "undefined", isDefault |-> "true"],
      [object |-> TRUE, default |-> "\"true\"", isDefault |-> "undefined"] }

ProviderRefs == { [id |-> id, extensions |-> ext] : id \in {"p1", "p2"}, ext \in ExtensionsValues }

isMarkedDefaultProvider(provider) ==
    LET ext == provider.extensions
    IN IF ~ext.object THEN FALSE
       ELSE ext.default = "true" \/ ext.isDefault = "true"

\* Map.prototype.delete(id) on the entries of the Map.
MapDelete(entries, id) == SelectSeq(entries, LAMBDA e : e.id # id)

\* Map.prototype.set(ref.id, ref): an existing key keeps its place.
MapSetRef(entries, ref) ==
    IF \E e \in 1..Len(entries) : entries[e].id = ref.id
    THEN [e \in 1..Len(entries) |-> IF entries[e].id = ref.id THEN ref ELSE entries[e]]
    ELSE Append(entries, ref)

\* Mutant of registerRef: the ref is set without deleting its id first.
registerRef_keepsPlace(entries, ref) == MapSetRef(entries, ref)

\* if (this.providersById.has(ref.id)) this.providersById.delete(ref.id);
\* this.providersById.set(ref.id, ref);
registerRef(entries, ref) ==
    MapSetRef(IF \E e \in 1..Len(entries) : entries[e].id = ref.id
              THEN MapDelete(entries, ref.id) ELSE entries,
              ref)

\* providers.get(id)
GetProvider(entries, id) ==
    IF \E e \in 1..Len(entries) : entries[e].id = id
    THEN <<entries[CHOOSE e \in 1..Len(entries) : entries[e].id = id]>>
    ELSE <<>>

\* resolveDefaultProvider(providerId); providerId "" is an absent one.
resolveDefaultProvider(entries, providerId) ==
    LET explicit == IF providerId # "" THEN GetProvider(entries, providerId) ELSE <<>>
        all == entries
        defaults == SelectSeq(all, isMarkedDefaultProvider)
    IN IF explicit # <<>> THEN [ok |-> TRUE, id |-> explicit[1].id, why |-> "explicit"]
       ELSE IF Len(all) = 0 THEN [ok |-> FALSE, id |-> "", why |-> "no_providers"]
       ELSE IF Len(defaults) > 0
       THEN [ok |-> TRUE, id |-> defaults[Len(defaults)].id, why |-> "default"]
       ELSE [ok |-> TRUE, id |-> all[Len(all)].id, why |-> "last"]

\* new Agnet({cwd}): the providers persisted in the registry of cwd are
\* loaded in registry order.
RegistryInit ==
    /\ frames = <<>> /\ wire = <<>> /\ pos = 0
    /\ buffer = <<>> /\ offset = 0 /\ lastOut = <<>> /\ derr = "none"
    /\ queue = <<>> /\ waiters = <<>> /\ ended = FALSE /\ pulls = <<>>
    /\ attached = TRUE /\ sendCalls = <<>> /\ written = <<>> /\ needDrain = FALSE
    /\ AgentAbsent
    /\ ClientAbsent
    /\ ChatAbsent
    /\ registrations \in { <<>>,
                           <<[id |-> "p1", extensions |-> NoExtensions]>>,
                           <<[id |-> "p2", extensions |->
                                 [object |-> TRUE, default |-> "true", isDefault |-> "undefined"]]>> }
    /\ providersById = registrations
    /\ resolved = NotResolved
    /\ env = <<>> /\ childEnv = NotSpawned
    /\ calls = NoCalls /\ child = NoChild /\ closeCalls = <<>>

\* agnet.providers.register(input), ref being what registerProvider returns.
ProvidersRegister ==
    /\ Len(registrations) < MaxRegistrations
    /\ \E ref \in ProviderRefs :
          /\ providersById' = registerRef(providersById, ref)
          /\ registrations' = Append(registrations, ref)
    /\ resolved' = NotResolved
    /\ UNCHANGED <<env, childEnv, calls, child, closeCalls>>
    /\ UNCHANGED <<codecVars, transportVars, agentVars, clientVars, chatVars>>

\* A request reaches resolveDefaultProvider, with a providerId or without.
ResolveDefault ==
    /\ \E providerId \in {"", "p1", "p3"} :
          resolved' = [resolveDefaultProvider(providersById, providerId)
                          EXCEPT !.why = IF providerId = "" THEN @ ELSE "explicit:" \o @]
    /\ UNCHANGED <<providersById, registrations, env, childEnv, calls, child, closeCalls>>
    /\ UNCHANGED <<codecVars, transportVars, agentVars, clientVars, chatVars>>

RegistryNext == ProvidersRegister \/ ResolveDefault

RegistrySpec == RegistryInit /\ [][RegistryNext]_vars

\* --------------------------------------------------------- registry claims

\* The registration that stands for its provider: no later one has its id.
IsCurrent(regs, i) == \A j \in (i + 1)..Len(regs) : regs[j].id # regs[i].id

\* The provider the claim names for the registrations regs, "" when there
\* is none.
ClaimedDefault(regs) ==
    LET marked == { i \in 1..Len(regs) : IsCurrent(regs, i) /\ isMarkedDefaultProvider(regs[i]) }
        latest(set) == CHOOSE i \in set : \A j \in set : j <= i
    IN IF regs = <<>> THEN ""
       ELSE IF marked # {} THEN regs[latest(marked)].id
       ELSE regs[Len(regs)].id

\* C28: default provider resolution.  A request without providerId resolves
\* to the provider whose marked-default registration is the most recent one,
\* if any provider is marked default, else to the provider registered last;
\* a provider registered again counts from its latest registration; with
\* no provider at all the resolution throws.
C28_DefaultProvider ==
    (resolved # NotResolved /\ resolved.why \in {"default", "last", "no_providers"})
    => /\ resolved.ok <=> registrations # <<>>
       /\ resolved.id = ClaimedDefault(registrations)

\* Two providers are marked default; the one marked first was registered
\* again afterwards and is the one resolved.
C28_Witness ==
    /\ Len(registrations) = 3
    /\ registrations[1].id = "p1" /\ isMarkedDefaultProvider(registrations[1])
    /\ registrations[2].id = "p2" /\ isMarkedDefaultProvider(registrations[2])
    /\ registrations[3].id = "p1" /\ isMarkedDefaultProvider(registrations[3])
    /\ resolved = [ok |-> TRUE, id |-> "p1", why |-> "default"]

\* ========================================================= child environment
\* sanitizeChildEnv and spawnLocalAgent.  Texts are sequences of
\* characters; an environment is the sequence of its entries [k, v] in
\* Object.entries order, v being Undefined for a key set to undefined.

Undefined == <<"undefined">>

\* env[key]
EnvGet(e, key) ==
    IF \E i \in 1..Len(e) : e[i].k = key
    THEN e[CHOOSE i \in 1..Len(e) : e[i].k = key].v
    ELSE Undefined

startsWith(s, prefix) == Len(prefix) <= Len(s) /\ SubSeq(s, 1, Len(prefix)) = prefix

endsWith(s, suffix) ==
    Len(suffix) <= Len(s) /\ SubSeq(s, Len(s) - Len(suffix) + 1, Len(s)) = suffix

RECURSIVE trimStart(_)
trimStart(s) ==
    IF s # <<>> /\ Head(s) \in {" ", "\n", "\t", "\r"} THEN trimStart(Tail(s)) ELSE s

trim(s) == trimEnd(trimStart(s))

UpperCase == <<"A", "B", "C", "D", "E", "F", "G", "H", "I", "J", "K", "L", "M", "N", "O", "P", "Q", "R", "S", "T", "U", "V", "W", "X", "Y", "Z">>

LowerCase == <<"a", "b", "c", "d", "e", "f", "g", "h", "i", "j", "k", "l", "m", "n", "o", "p", "q", "r", "s", "t", "u", "v", "w", "x", "y", "z">>

toLowerCase(s) ==
    [i \in 1..Len(s) |->
        IF \E c \in 1..Len(UpperCase) : UpperCase[c] = s[i]
        THEN LowerCase[CHOOSE c \in 1..Len(UpperCase) : UpperCase[c] = s[i]]
        ELSE s[i]]

RECURSIVE split(_, _)
split(s, sep) ==
    IF \E i \in 1..Len(s) : s[i] = sep
    THEN LET i == CHOOSE i \in 1..Len(s) : s[i] = sep /\ \A j \in 1..(i - 1) : s[j] # sep
         IN <<SubSeq(s, 1, i - 1)>> \o split(SubSeq(s, i + 1, Len(s)), sep)
    ELSE <<s>>

parseTruthy(value) ==
    IF value = Undefined \/ value = <<>> THEN FALSE
    ELSE LET v == toLowerCase(trim(value))
         IN v = <<"1">> \/ v = <<"t", "r", "u", "e">> \/ v = <<"y", "e", "s">> \/ v = <<"o", "n">>

splitList(value) ==
    IF value = Undefined \/ value = <<>> THEN <<>>
    ELSE LET items == split(value, ",")
             trimmed == [i \in 1..Len(items) |-> trim(items[i])]
         IN SelectSeq(trimmed, LAMBDA x : Len(x) > 0)

isEnvProtectionEnabled(e) ==
    parseTruthy(EnvGet(e, <<"A", "G", "N", "E", "T", "_", "P", "R", "O", "T", "E", "C", "T">>)) \/ parseTruthy(EnvGet(e, <<"A", "G", "N", "E", "T", "_", "P", "R", "O", "T", "E", "C", "T", "_", "E", "N", "V">>))

parseAllowPatterns(value) ==
    LET items == splitList(value)
    IN [i \in 1..Len(items) |->
          IF endsWith(items[i], <<"*">>)
          THEN [kind |-> "prefix", value |-> SubSeq(items[i], 1, Len(items[i]) - 1)]
          ELSE [kind |-> "exact", value |-> items[i]]]

\* Mutant of matchesAllow: prefix patterns are not honoured.
matchesAllow_exactOnly(key, patterns) ==
    \E i \in 1..Len(patterns) : patterns[i].kind = "exact" /\ key = patterns[i].value

matchesAllow(key, patterns) ==
    \E i \in 1..Len(patterns) :
        \/ patterns[i].kind = "exact" /\ key = patterns[i].value
        \/ patterns[i].kind = "prefix" /\ startsWith(key, patterns[i].value)

safeExact ==
    { <<"P", "A", "T", "H">>,
      <<"H", "O", "M", "E">>,
      <<"U", "S", "E", "R">>,
      <<"L", "O", "G", "N", "A", "M", "E">>,
      <<"S", "H", "E", "L", "L">>,
      <<"P", "W", "D">>,
      <<"T", "M", "P", "D", "I", "R">>,
      <<"T", "M", "P">>,
      <<"T", "E", "M", "P">>,
      <<"L", "A", "N", "G">>,
      <<"L", "C", "_", "A", "L", "L">>,
      <<"T", "E", "R", "M">>,
      <<"C", "O", "L", "O", "R", "T", "E", "R", "M">>,
      <<"N", "O", "_", "C", "O", "L", "O", "R">>,
      <<"F", "O", "R", "C", "E", "_", "C", "O", "L", "O", "R">>,
      <<"N", "V", "M", "_", "D", "I", "R">>,
      <<"N", "V", "M", "_", "B", "I", "N">>,
      <<"N", "O", "D", "E", "_", "O", "P", "T", "I", "O", "N", "S">>,
      <<"N", "O", "D", "E", "_", "P", "A", "T", "H">>,
      <<"C", "I">> }

\* The result is [same, entries]: same tells that the object returned is
\* env itself.
sanitizeChildEnv(e) ==
    IF ~isEnvProtectionEnabled(e) THEN [same |-> TRUE, entries |-> e]
    ELSE LET allow == parseAllowPatterns(EnvGet(e, <<"A", "G", "N", "E", "T", "_", "A", "L", "L", "O", "W", "_", "E", "N", "V">>))
             keeps(entry) ==
                 /\ entry.v # Undefined
                 /\ \/ entry.k \in safeExact
                    \/ startsWith(entry.k, <<"L", "C", "_">>)
                    \/ startsWith(entry.k, <<"A", "G", "N", "E", "T", "_">>)
                    \/ matchesAllow(entry.k, allow)
         IN [same |-> FALSE, entries |-> SelectSeq(e, keeps)]

\* command.split(/[\\/]/).pop()
basename(command) ==
    LET parts == split([i \in 1..Len(command) |-> IF command[i] = "\\" THEN "/" ELSE command[i]], "/")
    IN parts[Len(parts)]

\* assertCommandAllowed returns normally.
CommandAllowed(command, e) ==
    \/ ~parseTruthy(EnvGet(e, <<"A", "G", "N", "E", "T", "_", "P", "R", "O", "T", "E", "C", "T", "_", "S", "T", "R", "I", "C", "T">>))
    \/ LET allow == splitList(EnvGet(e, <<"A", "G", "N", "E", "T", "_", "A", "L", "L", "O", "W", "_", "C", "O", "M", "M", "A", "N", "D", "S">>))
       IN \/ Len(allow) = 0
          \/ \E i \in 1..Len(allow) : allow[i] = command \/ allow[i] = basename(command)

\* The parent environments: each key is absent or has one of its values.
Slot(key, values) == {<<>>} \cup { <<[k |-> key, v |-> value]>> : value \in values }

ParentEnvs ==
    { a \o b \o c \o d \o f \o g \o h \o i \o j \o l \o n :
        a \in Slot(<<"A", "G", "N", "E", "T", "_", "P", "R", "O", "T", "E", "C", "T">>, {<<"1">>, <<" ", "T", "R", "U", "E", " ">>, <<"0">>}),
        b \in Slot(<<"A", "G", "N", "E", "T", "_", "P", "R", "O", "T", "E", "C", "T", "_", "E", "N", "V">>, {<<"o", "n">>, <<>>}),
        c \in Slot(<<"A", "G", "N", "E", "T", "_", "A", "L", "L", "O", "W", "_", "E", "N", "V">>, {<<"S", "E", "C", "R", "E", "T", ",", "M", "Y", "A", "P", "P", "_", "*">>, <<" ", "S", "E", "C", "R", "E", "T", " ", ",", " ", ",", "L", "C", "*">>, <<"*">>}),
        d \in Slot(<<"A", "G", "N", "E", "T", "_", "P", "R", "O", "T", "E", "C", "T", "_", "S", "T", "R", "I", "C", "T">>, {<<"1">>}),
        f \in Slot(<<"A", "G", "N", "E", "T", "_", "A", "L", "L", "O", "W", "_", "C", "O", "M", "M", "A", "N", "D", "S">>, {<<"n", "o", "d", "e">>}),
        g \in { <<[k |-> <<"P", "A", "T", "H">>, v |-> <<"/", "b", "i", "n">>]>> },
        h \in Slot(<<"H", "O", "M", "E">>, {<<"/", "h">>, Undefined}),
        i \in Slot(<<"L", "C", "_", "C", "T", "Y", "P", "E">>, {<<"C">>}),
        j \in Slot(<<"L", "C", "X">>, {<<"x">>}),
        l \in Slot(<<"S", "E", "C", "R", "E", "T">>, {<<"s", "3">>}),
        n \in Slot(<<"M", "Y", "A", "P", "P", "_", "T", "O", "K", "E", "N">>, {<<"t">>}) }

SpawnCommands == { <<"n", "o", "d", "e">>, <<"/", "b", "i", "n", "/", "n", "o", "d", "e">>, <<"b", "a", "s", "h">> }

EnvInit ==
    /\ frames = <<>> /\ wire = <<>> /\ pos = 0
    /\ buffer = <<>> /\ offset = 0 /\ lastOut = <<>> /\ derr = "none"
    /\ queue = <<>> /\ waiters = <<>> /\ ended = FALSE /\ pulls = <<>>
    /\ attached = TRUE /\ sendCalls = <<>> /\ written = <<>> /\ needDrain = FALSE
    /\ AgentAbsent
    /\ ClientAbsent
    /\ ChatAbsent
    /\ providersById = <<>> /\ registrations = <<>> /\ resolved = NotResolved
    /\ env \in ParentEnvs
    /\ childEnv = NotSpawned
    /\ calls = NoCalls /\ child = NoChild /\ closeCalls = <<>>

\* spawnLocalAgent({command, args, env}): the command check, then spawn
\* with env: sanitizeChildEnv(parentEnv).
SpawnLocalAgent ==
    /\ childEnv = NotSpawned
    /\ \E command \in SpawnCommands :
          childEnv' = IF ~CommandAllowed(command, env)
                      THEN [NotSpawned EXCEPT !.thrown = TRUE]
                      ELSE [spawned |-> TRUE, thrown |-> FALSE,
                            same |-> sanitizeChildEnv(env).same,
                            entries |-> sanitizeChildEnv(env).entries]
    /\ UNCHANGED <<providersById, registrations, resolved, env, calls, child, closeCalls>>
    /\ UNCHANGED <<codecVars, transportVars, agentVars, clientVars, chatVars>>

EnvNext == SpawnLocalAgent

EnvSpec == EnvInit /\ [][EnvNext]_vars

\* ------------------------------------------------------ environment claims

\* The values that switch protection on, among those the environments hold.
TruthyTexts == { <<"1">>, <<" ", "T", "R", "U", "E", " ">>, <<"o", "n">> }

\* The keys the value of AGNET_ALLOW_ENV allows, as the claim reads it.
AllowedBy(allowText, key) ==
    CASE allowText = <<"S", "E", "C", "R", "E", "T", ",", "M", "Y", "A", "P", "P", "_", "*">> ->
            key = <<"S", "E", "C", "R", "E", "T">> \/ startsWith(key, <<"M", "Y", "A", "P", "P", "_">>)
      [] allowText = <<" ", "S", "E", "C", "R", "E", "T", " ", ",", " ", ",", "L", "C", "*">> ->
            key = <<"S", "E", "C", "R", "E", "T">> \/ startsWith(key, <<"L", "C">>)
      [] allowText = <<"*">> -> TRUE
      [] OTHER -> FALSE

ClaimKeeps(e, entry) ==
    /\ entry.v # Undefined
    /\ \/ entry.k \in safeExact
       \/ startsWith(entry.k, <<"L", "C", "_">>)
       \/ startsWith(entry.k, <<"A", "G", "N", "E", "T", "_">>)
       \/ AllowedBy(EnvGet(e, <<"A", "G", "N", "E", "T", "_", "A", "L", "L", "O", "W", "_", "E", "N", "V">>), entry.k)

ProtectionOn ==
    \/ EnvGet(env, <<"A", "G", "N", "E", "T", "_", "P", "R", "O", "T", "E", "C", "T">>) \in TruthyTexts
    \/ EnvGet(env, <<"A", "G", "N", "E", "T", "_", "P", "R", "O", "T", "E", "C", "T", "_", "E", "N", "V">>) \in TruthyTexts

\* C29: the environment of a spawned agent.  Without protection it is the
\* parent environment itself; with AGNET_PROTECT or AGNET_PROTECT_ENV
\* truthy it holds exactly the set variables whose key is in the safe set,
\* starts with LC_ or AGNET_, or is allowed by AGNET_ALLOW_ENV, each with
\* the parent's value and in the parent's order.
C29_ChildEnvSanitized ==
    childEnv.spawned =>
        IF ProtectionOn
        THEN /\ ~childEnv.same
             /\ childEnv.entries = SelectSeq(env, LAMBDA entry : ClaimKeeps(env, entry))
        ELSE childEnv.same /\ childEnv.entries = env

\* A protected spawn whose parent holds SECRET, LCX and MYAPP_TOKEN and
\* allows SECRET and MYAPP_*: the child gets both of these and not LCX.
C29_Witness ==
    /\ childEnv.spawned /\ ProtectionOn
    /\ EnvGet(env, <<"A", "G", "N", "E", "T", "_", "A", "L", "L", "O", "W", "_", "E", "N", "V">>) = <<"S", "E", "C", "R", "E", "T", ",", "M", "Y", "A", "P", "P", "_", "*">>
    /\ EnvGet(env, <<"L", "C", "X">>) # Undefined
    /\ EnvGet(env, <<"S", "E", "C", "R", "E", "T">>) = <<"s", "3">>
    /\ EnvGet(env, <<"M", "Y", "A", "P", "P", "_", "T", "O", "K", "E", "N">>) = <<"t">>
    /\ EnvGet(childEnv.entries, <<"M", "Y", "A", "P", "P", "_", "T", "O", "K", "E", "N">>) = <<"t">>
    /\ EnvGet(childEnv.entries, <<"S", "E", "C", "R", "E", "T">>) = <<"s", "3">>
    /\ EnvGet(childEnv.entries, <<"L", "C", "X">>) = Undefined
    /\ EnvGet(childEnv.entries, <<"P", "A", "T", "H">>) = <<"/", "b", "i", "n">>

\* ================================================= overlapping Chat.send
\* Two Chat.send calls on one chat, each with its own agent process.  A
\* call is [pc, prompt, prior, history]: prior is the history readChat gave
\* runTaskSend, history the one runTaskSend returned.

IdleCall == [pc |-> "idle", prompt |-> <<>>, prior |-> <<>>, history |-> <<>>]

\* The history the session/complete of the last turn carries when a fresh
\* agent is sent the contents one after the other in one session.
RECURSIVE SessionAfter(_, _)
SessionAfter(session, contents) ==
    IF contents = <<>> THEN session
    ELSE LET user == PushUserTurn(session, Head(contents))
             after == PushAssistantTurn(user, AssistantContent(user.turns, Head(contents)))
         IN SessionAfter(after, Tail(contents))

OverlapInit ==
    /\ frames = <<>> /\ wire = <<>> /\ pos = 0
    /\ buffer = <<>> /\ offset = 0 /\ lastOut = <<>> /\ derr = "none"
    /\ queue = <<>> /\ waiters = <<>> /\ ended = FALSE /\ pulls = <<>>
    /\ attached = TRUE /\ sendCalls = <<>> /\ written = <<>> /\ needDrain = FALSE
    /\ AgentAbsent
    /\ ClientAbsent
    /\ dpc = "idle" /\ dprompt = <<>> /\ dprior = <<>> /\ dqueue = <<>>
    /\ dresult = NoRun /\ dreply = <<>>
    /\ persisted \in { <<>>, SessionAfter(NewSession, << <<"a">> >>).history }
    /\ providersById = <<>> /\ registrations = <<>> /\ resolved = NotResolved
    /\ env = <<>> /\ childEnv = NotSpawned
    /\ calls = <<IdleCall, IdleCall>>
    /\ child = NoChild /\ closeCalls = <<>>

\* chat.send(prompt): runTaskSend spawns an agent and does the handshake.
OverlapSend(c) ==
    /\ calls[c].pc = "idle"
    /\ \E prompt \in Contents :
          calls' = [calls EXCEPT ![c] = [@ EXCEPT !.pc = "started", !.prompt = prompt]]
    /\ UNCHANGED <<providersById, registrations, resolved, env, childEnv, child, closeCalls>>
    /\ UNCHANGED <<codecVars, transportVars, agentVars, clientVars, chatVars>>

\* runTaskSend: const chat = await readChat(cwd, chatId)
OverlapRead(c) ==
    /\ calls[c].pc = "started"
    /\ calls' = [calls EXCEPT ![c] = [@ EXCEPT !.pc = "replaying", !.prior = persisted]]
    /\ UNCHANGED <<providersById, registrations, resolved, env, childEnv, child, closeCalls>>
    /\ UNCHANGED <<codecVars, transportVars, agentVars, clientVars, chatVars>>

\* runTaskSend: the prior user prompts are replayed, the prompt is sent, and
\* the history of its session/complete is returned.
OverlapComplete(c) ==
    /\ calls[c].pc = "replaying"
    /\ calls' = [calls EXCEPT ![c] =
                    [@ EXCEPT !.pc = "returned",
                              !.history = SessionAfter(NewSession,
                                  Append(PriorUsers(calls[c].prior), calls[c].prompt)).history]]
    /\ UNCHANGED <<providersById, registrations, resolved, env, childEnv, child, closeCalls>>
    /\ UNCHANGED <<codecVars, transportVars, agentVars, clientVars, chatVars>>

\* Chat.send: existing = await readChat(...); await writeChat(..., {...existing,
\* history}); the call resolves.
OverlapWrite(c) ==
    /\ calls[c].pc = "returned"
    /\ persisted' = calls[c].history
    /\ calls' = [calls EXCEPT ![c] = [@ EXCEPT !.pc = "resolved"]]
    /\ UNCHANGED <<dpc, dprompt, dprior, dqueue, dresult, dreply>>
    /\ UNCHANGED <<providersById, registrations, resolved, env, childEnv, child, closeCalls>>
    /\ UNCHANGED <<codecVars, transportVars, agentVars, clientVars>>

OverlapSendAny == \E c \in 1..2 : OverlapSend(c)

OverlapReadAny == \E c \in 1..2 : OverlapRead(c)

OverlapCompleteAny == \E c \in 1..2 : OverlapComplete(c)

OverlapWriteAny == \E c \in 1..2 : OverlapWrite(c)

OverlapNext == OverlapSendAny \/ OverlapReadAny \/ OverlapCompleteAny \/ OverlapWriteAny

OverlapSpec == OverlapInit /\ [][OverlapNext]_vars

\* ---------------------------------------------------------- overlap claims

\* The length of the chat's history before either call read it.
HistoryBefore == Min(Len(calls[1].prior), Len(calls[2].prior))

\* C36: no turn is lost.  When both Chat.send calls on the chat have
\* resolved, the persisted history holds, behind what it held before, the
\* user entry and the assistant reply of both calls.
C36_NoLostTurn ==
    (calls # NoCalls /\ calls[1].pc = "resolved" /\ calls[2].pc = "resolved")
        => LET added == SubSeq(persisted, HistoryBefore + 1, Len(persisted))
           IN /\ Len(added) = 4
              /\ PriorUsers(added) \in { <<calls[1].prompt, calls[2].prompt>>,
                                         <<calls[2].prompt, calls[1].prompt>> }
              /\ added[2].role = "assistant" /\ added[4].role = "assistant"

\* ================================================== LocalAgentConnection
\* The connection spawnLocalAgent returns: the child process, the transport
\* on its stdout, and close().  child is [state, killed, exitCode] with
\* state "running", "exited" (with an exit code) or "signaled" (terminated
\* by a signal: exitCode stays null, written -1).

RunningChild == [state |-> "running", killed |-> FALSE, exitCode |-> 0 - 1]

ConnInit ==
    /\ frames \in [1..1 -> TransportFrames]
    /\ wire = WireOf(frames)
    /\ pos = 0
    /\ buffer = <<>> /\ offset = 0 /\ lastOut = <<>> /\ derr = "none"
    /\ queue = <<>> /\ waiters = <<>> /\ ended = FALSE /\ pulls = <<>>
    /\ attached = TRUE /\ sendCalls = <<>> /\ written = <<>> /\ needDrain = FALSE
    /\ AgentAbsent
    /\ ClientAbsent
    /\ ChatAbsent
    /\ providersById = <<>> /\ registrations = <<>> /\ resolved = NotResolved
    /\ env = <<>> /\ childEnv = NotSpawned
    /\ calls = NoCalls
    /\ child = RunningChild
    /\ closeCalls = <<>>

\* child.kill(): the signal is sent and killed set when the process is
\* still there; otherwise kill() returns false and changes nothing.
kill(c) == IF c.state = "running" THEN [c EXCEPT !.killed = TRUE] ELSE c

\* The promise close() awaits: resolved at once when exitCode is not null,
\* otherwise resolved by the next "exit" event.
ExitPromise(c) == IF c.exitCode # 0 - 1 THEN "resolved" ELSE "pending"

\* The child emits "exit": every once("exit") listener resolves its promise.
EmitExit(cs) == [i \in 1..Len(cs) |-> [cs[i] EXCEPT !.state = "resolved"]]

\* conn.close(): transport.close(); if (!child.killed) child.kill(); then
\* the wait for the exit.
ConnClose ==
    /\ Len(closeCalls) < MaxCloses
    /\ SetTransport(close(Transport))
    /\ child' = IF ~child.killed THEN kill(child) ELSE child
    /\ closeCalls' = Append(closeCalls,
                            [state |-> ExitPromise(child), childWas |-> child.state])
    /\ UNCHANGED <<providersById, registrations, resolved, env, childEnv, calls>>
    /\ UNCHANGED <<codecVars, agentVars, clientVars, chatVars>>

\* The child exits with an exit code.
ChildExit ==
    /\ child.state = "running"
    /\ \E code \in {0, 1} : child' = [child EXCEPT !.state = "exited", !.exitCode = code]
    /\ closeCalls' = EmitExit(closeCalls)
    /\ UNCHANGED <<providersById, registrations, resolved, env, childEnv, calls>>
    /\ UNCHANGED <<codecVars, transportVars, agentVars, clientVars, chatVars>>

\* The child is terminated by a signal, the one kill() sent or another.
ChildSignaled ==
    /\ child.state = "running"
    /\ child' = [child EXCEPT !.state = "signaled"]
    /\ closeCalls' = EmitExit(closeCalls)
    /\ UNCHANGED <<providersById, registrations, resolved, env, childEnv, calls>>
    /\ UNCHANGED <<codecVars, transportVars, agentVars, clientVars, chatVars>>

ConnNext ==
    \/ ConnClose
    \/ ChildExit
    \/ ChildSignaled
    \/ TNext
    \/ TOnData
    \/ TOnEnd
    \/ TOnError

ConnSpec == ConnInit /\ [][ConnNext]_vars

\* A child that was sent the signal terminates.
ConnLiveSpec == ConnSpec /\ WF_vars(child.killed /\ (ChildExit \/ ChildSignaled))

\* ------------------------------------------------------- connection claims

\* C37: close() resolves.  Every promise a close() call returned is
\* resolved in the end, whatever the child's state was at the call: running,
\* exited with a code, terminated by a signal, or killed by an earlier
\* close().
C37_CloseResolves ==
    \A i \in 1..MaxCloses :
        (Len(closeCalls) >= i) ~> (Len(closeCalls) >= i /\ closeCalls[i].state = "resolved")

\* ------------------------------------------------- the agent's inbound wire

\* The agent is running and its stdin will carry the bytes of wire; inbox
\* collects the values handleChunk's loop is given.
AgentInInit ==
    /\ frames \in FrameSeqs
    /\ wire = WireOf(frames)
    /\ pos = 0
    /\ buffer = <<>>
    /\ offset = 0
    /\ lastOut = <<>>
    /\ derr = "none"
    /\ queue = <<>> /\ waiters = <<>> /\ ended = FALSE /\ pulls = <<>>
    /\ attached = TRUE /\ sendCalls = <<>> /\ written = <<>> /\ needDrain = FALSE
    /\ aconfig = [chunks |-> 1, emitToolCalls |-> FALSE, streaming |-> TRUE]
    /\ inbox = <<>> /\ taken = 0 /\ sessions = <<>> /\ sessionCounter = 0
    /\ outbox = <<>> /\ apc = "idle" /\ turn = NoTurn
    /\ chats = <<>> /\ chatOrder = <<>> /\ chatCounter = 0
    /\ ClientAbsent
    /\ ChatAbsent
    /\ HostAbsent

\* A data event of stdin with the next k > 0 bytes of the wire: handleChunk
\* pushes them into the decoder and loops over the messages returned.  A
\* throw of push rejects handleChunk and is swallowed by the catch of the
\* processing chain; the next data event is handled as usual.
AgentStdinData ==
    /\ apc = "idle"
    /\ \E k \in 1..(Len(wire) - pos) :
        LET r == agentPush(buffer, offset, Slice(wire, pos, pos + k))
            out == IF r.err = "none" THEN r.out ELSE <<>>
        IN /\ pos' = pos + k
           /\ buffer' = r.buffer
           /\ offset' = r.offset
           /\ lastOut' = out
           /\ derr' = r.err
           /\ inbox' = inbox \o out
    /\ UNCHANGED <<frames, wire>>
    /\ UNCHANGED <<aconfig, taken, sessions, sessionCounter, outbox, apc, turn, chats, chatOrder, chatCounter>>
    /\ UNCHANGED <<transportVars, clientVars, chatVars, hostVars>>

\* The end event of stdin, after all its data: process.exit(0).
AgentStdinEnd ==
    /\ apc = "idle"
    /\ pos = Len(wire)
    /\ apc' = "absent"
    /\ UNCHANGED <<aconfig, inbox, taken, sessions, sessionCounter, outbox, turn, chats, chatOrder, chatCounter>>
    /\ UNCHANGED <<codecVars, transportVars, clientVars, chatVars, hostVars>>

AgentInNext == AgentStdinData \/ AgentStdinEnd

AgentInSpec == AgentInInit /\ [][AgentInNext]_vars

\* ---------------------------------------------------- agent inbound claims

\* The header of frame i, declaring more than 104,857,600 bytes, lies within
\* the first n bytes of the wire, behind well-formed frames only.
OversizeHeaderWithin(i, n) ==
    /\ AllEncoded(SubSeq(frames, 1, i - 1))
    /\ DeclaredLength(frames, i) > 104857600
    /\ n >= FrameStart(frames, i) + 4

\* C40: the agent's decoder has the driver's ceiling.  The data event that
\* brings the fourth header byte of a frame declaring more than 104,857,600
\* bytes ends in a framing error; from then on the agent buffers no byte
\* behind that header as payload and hands no message to its loop.
C40_AgentFrameCeiling ==
    [][ \A i \in 1..Len(frames) :
          /\ (~OversizeHeaderWithin(i, pos) /\ OversizeHeaderWithin(i, pos'))
                => derr' = "too_large"
          /\ (OversizeHeaderWithin(i, pos) /\ pos' > pos)
                => /\ inbox' = inbox
                   /\ derr' # "none" ]_vars

====
